---------------------------- MODULE Spec2Model ----------------------------
(***************************************************************************)
(* Client-side reconciliation layer of the document-analysis web client:   *)
(*   - the interactive clause viewer (state machine and highlight walk),   *)
(*   - the RAG chat page (transcript, uploads, queries),                   *)
(*   - the clause normalizer and the chart aggregator.                     *)
(* Strings are sequences of one-character strings, so that substring       *)
(* search, case conversion and regex replacement are computed, not assumed.*)
(***************************************************************************)
EXTENDS Integers, Sequences, FiniteSets, TLC

VARIABLES
    \* ---- InteractiveClauseViewer: props and React state
    text,               \* prop: document text
    clauses,            \* prop: clause list
    activeClauseIndex,  \* useState(-1)
    isPlaying,          \* useState(false)
    searchTerm,         \* useState("")
    filterType,         \* useState("all")
    intervals,          \* live setInterval handles: the list length each closure captured
    mounted,            \* the component is mounted
    \* ---- renderHighlightedText: position of the forEach walk
    walkPos,            \* number of sortedClauses entries already visited
    lastIndex,          \* the walk's cursor
    elements,           \* the rendered segments so far
    renderPc,           \* "idle" | "walk" | "done"
    \* ---- ChatbotPage: React state and asynchronous work in flight
    messages,           \* transcript
    inputValue,         \* textarea content
    isLoading,          \* query busy flag
    uploadedDocs,       \* uploaded documents
    isUploading,        \* upload busy flag
    pendingUploads,     \* uploadRAGDocument calls awaiting settlement (handler closures)
    pendingQueries,     \* queryRAG calls awaiting settlement (handler closures)
    pendingTimers,      \* setTimeout callbacks not yet run (handler closures)
    opsStarted,         \* uploads and sends the page has started so far
    \* ---- ClauseExtraction / AnalysisCharts
    extractions,        \* the list of extractions the backend found
    data,               \* the clause payload (analysisResults.langextract) carrying it
    processedData,      \* ClauseExtraction's memoised result
    riskData,           \* AnalysisCharts' memoised risk distribution
    normPc,             \* which memos ("list", "chart", "sentiment", ...) are computed
    \* ---- SentimentAnalysis / NERAnalysis / AnalysisCharts
    ner,                \* the entity payload (analysisResults.ner)
    finbert,            \* the sentiment payload (analysisResults.finbert)
    nerProcessed,       \* NERAnalysis' memoised result
    sentimentProcessed, \* SentimentAnalysis' memoised result
    sentimentData,      \* AnalysisCharts' memoised sentiment distribution
    entityData,         \* AnalysisCharts' memoised entity distribution
    location,           \* Results: the router location's state
    globalResults,      \* Results: the analysisResults prop
    sessionStore,       \* Results: the sessionStorage items read by the effect
    resultsState,       \* Results: analysisResults, selectedAnalyses, uploadedFiles, activeTab
    resultsPc,          \* Results: idle, mounted, loaded, rendered, error or left
    resultsView,        \* Results: what the page shows
    thrown,             \* the memos whose computation raised an error
    \* ---- the event handled by the last step
    lastEvent

viewerVars == <<text, clauses, activeClauseIndex, isPlaying, searchTerm, filterType,
                intervals, mounted>>
renderVars == <<walkPos, lastIndex, elements, renderPc>>
chatVars   == <<messages, inputValue, isLoading, uploadedDocs, isUploading,
                pendingUploads, pendingQueries, pendingTimers, opsStarted>>
panelVars  == <<ner, finbert, nerProcessed, sentimentProcessed, sentimentData, entityData, thrown>>
resultsVars == <<location, globalResults, sessionStore, resultsState, resultsPc, resultsView>>
normVars   == <<extractions, data, processedData, riskData, normPc, panelVars, resultsVars>>
vars       == <<viewerVars, renderVars, chatVars, normVars, lastEvent>>

-----------------------------------------------------------------------------
(* Bounds of the model *)

MaxDocLen == 3        \* longest document text drawn
MaxClauses == 3       \* longest clause list given to the viewer
MaxOps == 3           \* most uploads and sends started in one run of the chat page
MaxExtractions == 2   \* longest list of extractions in a clause payload
MaxSentences == 2     \* longest sentence list in a sentiment payload
MaxEntities == 2      \* longest entity list in an entity payload

-----------------------------------------------------------------------------
(* JavaScript strings *)

Min(a, b) == IF a < b THEN a ELSE b
Max(a, b) == IF a > b THEN a ELSE b

UpperOf ==
    [a |-> "A", b |-> "B", c |-> "C", d |-> "D", e |-> "E", f |-> "F", g |-> "G",
     h |-> "H", i |-> "I", j |-> "J", k |-> "K", l |-> "L", m |-> "M", n |-> "N",
     o |-> "O", p |-> "P", q |-> "Q", r |-> "R", s |-> "S", t |-> "T", u |-> "U",
     v |-> "V", w |-> "W", x |-> "X", y |-> "Y", z |-> "Z"]

LowerLetters == DOMAIN UpperOf
UpperLetters == {UpperOf[c] : c \in LowerLetters}
Digits == {"0", "1", "2", "3", "4", "5", "6", "7", "8", "9"}

\* String.prototype.toUpperCase / toLowerCase on one character
toUpperChar(c) == IF c \in LowerLetters THEN UpperOf[c] ELSE c
toLowerChar(c) ==
    IF c \in UpperLetters THEN CHOOSE l \in LowerLetters : UpperOf[l] = c ELSE c

\* the string whose characters are given by f, as a tuple
StringOf(f) == SubSeq(f, 1, Len(f))

toLowerCase(s) == StringOf([i \in 1..Len(s) |-> toLowerChar(s[i])])


\* sub occurs in s at 0-based offset i
OccursAt(s, sub, i) ==
    /\ i >= 0
    /\ i + Len(sub) <= Len(s)
    /\ \A j \in 1..Len(sub) : s[i + j] = sub[j]

\* s.indexOf(sub, from): the least offset >= from where sub occurs, else -1
indexOf(s, sub, from) ==
    LET start == Min(Max(from, 0), Len(s))
        hits == {i \in start..Len(s) : OccursAt(s, sub, i)}
    IN  IF hits = {} THEN -1 ELSE CHOOSE i \in hits : \A j \in hits : i <= j

\* s.includes(sub)
includes(s, sub) == \E i \in 0..(Len(s) - Len(sub)) : OccursAt(s, sub, i)

\* all sequences over S of length lo..hi
SeqsOver(S, lo, hi) == UNION {[1..n -> S] : n \in lo..hi}

-----------------------------------------------------------------------------
(* InteractiveClauseViewer: inputs *)

DocAlphabet == {"a", "B"}
Docs == SeqsOver(DocAlphabet, 0, MaxDocLen)

TypePay == <<"P", "a", "y">>
TypeTerm == <<"T", "e", "r", "m">>
All == <<"a", "l", "l">>

\* clauses as the normalizer hands them over: a non-empty text and a type
ClausePool ==
    { [text |-> <<"a">>, type |-> TypePay],
      [text |-> <<"a", "B">>, type |-> TypeTerm],
      [text |-> <<"B", "a">>, type |-> TypePay],
      [text |-> <<"B">>, type |-> TypeTerm] }
ClauseLists == SeqsOver(ClausePool, 0, MaxClauses)

\* the documents and clause lists the viewer's state machine is run on:
\* lists of distinct pool clauses
ViewerDocs == {<<>>, <<"a", "B">>, <<"a", "B", "a">>}
ViewerClauseLists ==
    {l \in ClauseLists : \A i, j \in 1..Len(l) : i # j => l[i] # l[j]}

\* what the user may type into the search box
SearchTerms == {<<>>, <<"a">>, <<"b">>, <<"T">>}

-----------------------------------------------------------------------------
(* InteractiveClauseViewer: derived data *)

\* an insertion that puts c in front of the clauses occurring at its own position
RECURSIVE InsertByPositionUnstable(_, _, _)
InsertByPositionUnstable(sorted, c, txt) ==
    IF sorted = <<>> THEN <<c>>
    ELSE IF indexOf(txt, Head(sorted).text, 0) - indexOf(txt, c.text, 0) < 0
         THEN <<Head(sorted)>> \o InsertByPositionUnstable(Tail(sorted), c, txt)
         ELSE <<c>> \o sorted

\* insert clause c behind every clause that occurs no later in txt
RECURSIVE InsertByPosition(_, _, _)
InsertByPosition(sorted, c, txt) ==
    IF sorted = <<>> THEN <<c>>
    ELSE IF indexOf(txt, Head(sorted).text, 0) - indexOf(txt, c.text, 0) <= 0
         THEN <<Head(sorted)>> \o InsertByPosition(Tail(sorted), c, txt)
         ELSE <<c>> \o sorted

\* .sort((a, b) => text.indexOf(a.text) - text.indexOf(b.text)); the sort is stable
RECURSIVE SortByPosition(_, _)
SortByPosition(s, txt) ==
    IF s = <<>> THEN <<>>
    ELSE InsertByPosition(SortByPosition(SubSeq(s, 1, Len(s) - 1), txt), s[Len(s)], txt)

\* the memoised sortedClauses (Array.prototype.filter is SelectSeq)
sortedClauses(txt, cls, term, ftype) ==
    LET inText(c) == c.text # <<>> /\ includes(txt, c.text)
        matches(c) == \/ includes(toLowerCase(c.text), toLowerCase(term))
                      \/ includes(toLowerCase(c.type), toLowerCase(term))
        ofType(c) == c.type = ftype
        located == SortByPosition(SelectSeq(cls, inText), txt)
        searched == IF term # <<>> THEN SelectSeq(located, matches) ELSE located
    IN  IF ftype # All THEN SelectSeq(searched, ofType) ELSE searched

\* the memoised clauseTypes: "all" and the distinct clause types
clauseTypes(cls) == {All} \cup {cls[i].type : i \in 1..Len(cls)}

\* the list the current render shows
Shown == sortedClauses(text, clauses, searchTerm, filterType)

-----------------------------------------------------------------------------
(* renderHighlightedText *)

\* a rendered segment: the characters [start, end) of the text; idx is the clause's
\* index in sortedClauses (data-index), or -1 for the trailing plain text
Segment(kind, idx, start, end) == [kind |-> kind, idx |-> idx, start |-> start, end |-> end]

\* the callback without the "skip overlapping/backwards" return
HighlightStepNoSkip(txt, clause, idx, st) ==
    LET startIndex == indexOf(txt, clause.text, st.lastIndex)
        displayStart == IF startIndex # -1 THEN startIndex ELSE indexOf(txt, clause.text, 0)
        before == IF displayStart > st.lastIndex
                  THEN <<Segment("text", idx, st.lastIndex, displayStart)>>
                  ELSE <<>>
    IN  IF indexOf(txt, clause.text, 0) = -1 THEN st
        ELSE [lastIndex |-> displayStart + Len(clause.text),
              elements |-> st.elements \o before
                           \o <<Segment("highlight", idx, displayStart,
                                        displayStart + Len(clause.text))>>]

\* the callback anchoring every clause at its first occurrence in the text
HighlightStepFirstOccurrence(txt, clause, idx, st) ==
    LET displayStart == indexOf(txt, clause.text, 0)
        before == IF displayStart > st.lastIndex
                  THEN <<Segment("text", idx, st.lastIndex, displayStart)>>
                  ELSE <<>>
    IN  IF displayStart = -1 THEN st
        ELSE IF displayStart < st.lastIndex THEN st
        ELSE [lastIndex |-> displayStart + Len(clause.text),
              elements |-> st.elements \o before
                           \o <<Segment("highlight", idx, displayStart,
                                        displayStart + Len(clause.text))>>]

\* one call of the forEach callback: st = [lastIndex, elements] before, result after
HighlightStep(txt, clause, idx, st) ==
    LET startIndex == indexOf(txt, clause.text, st.lastIndex)
        absoluteIndex == indexOf(txt, clause.text, 0)
        displayStart == IF startIndex # -1 THEN startIndex ELSE indexOf(txt, clause.text, 0)
        before == IF displayStart > st.lastIndex
                  THEN <<Segment("text", idx, st.lastIndex, displayStart)>>
                  ELSE <<>>
    IN  IF absoluteIndex = -1 THEN st
        ELSE IF displayStart < st.lastIndex THEN st
        ELSE [lastIndex |-> displayStart + Len(clause.text),
              elements |-> st.elements \o before
                           \o <<Segment("highlight", idx, displayStart,
                                        displayStart + Len(clause.text))>>]

\* the forEach over sortedClauses[1..n], from cursor 0 and no elements
RECURSIVE HighlightWalk(_, _, _)
HighlightWalk(txt, sorted, n) ==
    IF n = 0 THEN [lastIndex |-> 0, elements |-> <<>>]
    ELSE HighlightStep(txt, sorted[n], n - 1, HighlightWalk(txt, sorted, n - 1))

\* the trailing plain text starting one character after the cursor
TextEndSkipsOne(txt, st) ==
    IF st.lastIndex < Len(txt)
    THEN st.elements \o <<Segment("text", -1, st.lastIndex + 1, Len(txt))>>
    ELSE st.elements

\* the trailing plain text pushed after the walk
TextEnd(txt, st) ==
    IF st.lastIndex < Len(txt)
    THEN st.elements \o <<Segment("text", -1, st.lastIndex, Len(txt))>>
    ELSE st.elements

\* the placeholder paragraph rendered for an empty text
NoTextPlaceholder == <<Segment("placeholder", -1, 0, 0)>>

\* the whole of renderHighlightedText
renderHighlightedText(txt, sorted) ==
    IF txt = <<>> THEN NoTextPlaceholder
    ELSE TextEnd(txt, HighlightWalk(txt, sorted, Len(sorted)))

\* the characters a segment displays: text.substring(start, end)
SegmentText(txt, seg) == SubSeq(txt, seg.start + 1, seg.end)

\* the text content of the rendered elements, in order
RECURSIVE RenderedText(_, _)
RenderedText(txt, els) ==
    IF els = <<>> THEN <<>>
    ELSE SegmentText(txt, Head(els)) \o RenderedText(txt, Tail(els))

\* the highlight segments among rendered elements
Highlights(els) == SelectSeq(els, LAMBDA e : e.kind = "highlight")

-----------------------------------------------------------------------------
(* Results: the inputs of the page and its state after construction *)

\* a null where an object is expected
Null == [isNull |-> TRUE]

\* a selection of analyses: selectedFeatures, selectedAnalyses
Selection(n, s, c) == [ner |-> n, sentiment |-> s, clauses |-> c]

\* useState({ ner: true, sentiment: true, clauses: false })
DefaultSelection == Selection(TRUE, TRUE, FALSE)

Selections ==
    {DefaultSelection, Selection(TRUE, FALSE, FALSE), Selection(FALSE, TRUE, FALSE),
     Selection(FALSE, FALSE, TRUE), Selection(FALSE, FALSE, FALSE)}

\* an analysis bundle, named by where it came from
Bundle(from) == [from |-> from]

\* location.state: null (hasState false) or an object whose fields may be absent
\* (Null; an absent file name is "")
LocationState(hasState, results, features, fileName) == [hasState |-> hasState, analysisResults |-> results, selectedFeatures |-> features, fileName |-> fileName]

NoLocationState == LocationState(FALSE, Null, Null, "")

LocationStates ==
    {NoLocationState}
    \cup {LocationState(TRUE, r, f, n) :
            r \in {Null, Bundle("navigation")}, f \in {Null} \cup Selections,
            n \in {"", "report.pdf"}}

\* sessionStorage: the parsed item 'selectedAnalyses', Null when it is not stored,
\* and the parsed item 'uploadedFiles' with whether it is stored
SessionStore(stored, hasFiles, files) == [selectedAnalyses |-> stored, hasFiles |-> hasFiles, uploadedFiles |-> files]

SessionStores ==
    {SessionStore(st, FALSE, <<>>) : st \in {Null} \cup Selections}
    \cup {SessionStore(st, TRUE, <<"old.pdf">>) : st \in {Null} \cup Selections}

\* the useState initial values
InitialResultsState == [analysisResults |-> Null, selectedAnalyses |-> DefaultSelection, uploadedFiles |-> <<>>, activeTab |-> "ner"]

-----------------------------------------------------------------------------
(* Values of the components a specification leaves alone *)

ViewerIdle ==
    /\ text = <<>> /\ clauses = <<>> /\ activeClauseIndex = -1 /\ isPlaying = FALSE
    /\ searchTerm = <<>> /\ filterType = All /\ intervals = <<>> /\ mounted = FALSE
RenderIdle ==
    /\ walkPos = 0 /\ lastIndex = 0 /\ elements = <<>> /\ renderPc = "idle"
ChatIdle ==
    /\ messages = <<>> /\ inputValue = "" /\ isLoading = FALSE /\ uploadedDocs = <<>>
    /\ isUploading = FALSE /\ pendingUploads = <<>> /\ pendingQueries = <<>>
    /\ pendingTimers = <<>> /\ opsStarted = 0
ResultsIdle ==
    /\ location = NoLocationState /\ globalResults = Null
    /\ sessionStore = SessionStore(Null, FALSE, <<>>) /\ resultsState = InitialResultsState
    /\ resultsPc = "idle" /\ resultsView = "none"
NormIdle ==
    /\ extractions = <<>> /\ data = <<>> /\ processedData = <<>> /\ riskData = <<>>
    /\ normPc = {}
    /\ ner = <<>> /\ finbert = <<>> /\ nerProcessed = <<>> /\ sentimentProcessed = <<>>
    /\ sentimentData = <<>> /\ entityData = <<>> /\ thrown = {}
    /\ ResultsIdle

-----------------------------------------------------------------------------
(* renderHighlightedText as a process: one step per forEach callback *)

InitRender ==
    /\ text \in Docs
    /\ clauses \in ClauseLists
    /\ searchTerm \in SearchTerms
    /\ filterType \in clauseTypes(clauses)
    /\ activeClauseIndex = -1 /\ isPlaying = FALSE /\ intervals = <<>> /\ mounted = TRUE
    /\ walkPos = 0 /\ lastIndex = 0 /\ elements = <<>> /\ renderPc = "walk"
    /\ ChatIdle /\ NormIdle
    /\ lastEvent = "render"

\* if (!text) return the placeholder
RenderNoText ==
    /\ renderPc = "walk" /\ text = <<>>
    /\ elements' = NoTextPlaceholder
    /\ renderPc' = "done"
    /\ lastEvent' = "placeholder"
    /\ UNCHANGED <<viewerVars, walkPos, lastIndex, chatVars, normVars>>

\* the forEach callback for sortedClauses[walkPos]
RenderStep ==
    /\ renderPc = "walk" /\ text # <<>> /\ walkPos < Len(Shown)
    /\ LET st == HighlightStep(text, Shown[walkPos + 1], walkPos,
                               [lastIndex |-> lastIndex, elements |-> elements])
       IN  /\ lastIndex' = st.lastIndex
           /\ elements' = st.elements
    /\ walkPos' = walkPos + 1
    /\ lastEvent' = "clause"
    /\ UNCHANGED <<viewerVars, renderPc, chatVars, normVars>>

\* after the forEach: the rest of the text
RenderEnd ==
    /\ renderPc = "walk" /\ text # <<>> /\ walkPos = Len(Shown)
    /\ elements' = TextEnd(text, [lastIndex |-> lastIndex, elements |-> elements])
    /\ renderPc' = "done"
    /\ lastEvent' = "textEnd"
    /\ UNCHANGED <<viewerVars, walkPos, lastIndex, chatVars, normVars>>

NextRender == RenderNoText \/ RenderStep \/ RenderEnd

SpecRender == InitRender /\ [][NextRender]_vars

-----------------------------------------------------------------------------
(* InteractiveClauseViewer: the auto-play effect and the event handlers *)

\* a cleanup that leaves the interval running
ClearIntervalLeak(ints) == ints

\* the effect's cleanup, clearInterval(interval): the handle the effect made is gone
ClearInterval(ints) == SubSeq(ints, 1, Len(ints) - 1)

\* the auto-play effect after a render.  Its dependencies are isPlaying and
\* sortedClauses.length; when they changed, the previous run's cleanup is called and
\* the effect body runs again, starting an interval whose closure holds the new list.
AutoPlayEffect(ints, wasPlaying, oldLen, nowPlaying, newLen) ==
    IF wasPlaying = nowPlaying /\ oldLen = newLen THEN ints
    ELSE LET cleaned == IF wasPlaying /\ oldLen > 0 THEN ClearInterval(ints) ELSE ints
         IN  IF nowPlaying /\ newLen > 0 THEN Append(cleaned, newLen) ELSE cleaned

\* a render after the state became (playing, term, ftype), with its effects
Commit(playing, term, ftype) ==
    intervals' = AutoPlayEffect(intervals, isPlaying, Len(Shown), playing,
                                Len(sortedClauses(text, clauses, term, ftype)))

\* the indices of the clauses that renderHighlightedText shows as clickable highlights
HighlightIndices ==
    LET els == renderHighlightedText(text, Shown)
    IN  {els[i].idx : i \in {j \in 1..Len(els) : els[j].kind = "highlight"}}

\* an updater that steps on without looking at the list length
TickUpdateNoStop(prev, n) == [index |-> prev + 1, stop |-> FALSE]

\* an updater that starts over at the first clause after the last one
TickUpdateWrap(prev, n) ==
    IF prev >= n - 1 THEN [index |-> 0, stop |-> FALSE]
    ELSE [index |-> prev + 1, stop |-> FALSE]

\* the interval callback's updater with the list length n its closure holds:
\* the new index, and whether setIsPlaying(false) was called
TickUpdate(prev, n) ==
    IF prev >= n - 1 THEN [index |-> prev, stop |-> TRUE]
    ELSE [index |-> prev + 1, stop |-> FALSE]

InitViewer ==
    /\ text \in ViewerDocs
    /\ clauses \in ViewerClauseLists
    /\ activeClauseIndex = -1
    /\ isPlaying = FALSE
    /\ searchTerm = <<>>
    /\ filterType = All
    /\ intervals = <<>>
    /\ mounted = TRUE
    /\ RenderIdle /\ ChatIdle /\ NormIdle
    /\ lastEvent = "mount"

\* onClick of a sidebar card
ClickCard ==
    /\ mounted
    /\ \E idx \in 0..(Len(Shown) - 1) : activeClauseIndex' = idx
    /\ lastEvent' = "card"
    /\ UNCHANGED <<text, clauses, isPlaying, searchTerm, filterType, intervals, mounted>>
    /\ UNCHANGED <<renderVars, chatVars, normVars>>

\* onClick of a highlighted span in the document view
ClickHighlight ==
    /\ mounted
    /\ \E idx \in HighlightIndices : activeClauseIndex' = idx
    /\ lastEvent' = "highlight"
    /\ UNCHANGED <<text, clauses, isPlaying, searchTerm, filterType, intervals, mounted>>
    /\ UNCHANGED <<renderVars, chatVars, normVars>>

\* the Prev button, disabled when activeClauseIndex <= 0
ClickPrev ==
    /\ mounted
    /\ ~(activeClauseIndex <= 0)
    /\ activeClauseIndex' = Max(0, activeClauseIndex - 1)
    /\ lastEvent' = "prev"
    /\ UNCHANGED <<text, clauses, isPlaying, searchTerm, filterType, intervals, mounted>>
    /\ UNCHANGED <<renderVars, chatVars, normVars>>

\* the Next button, disabled when activeClauseIndex >= sortedClauses.length - 1
ClickNext ==
    /\ mounted
    /\ ~(activeClauseIndex >= Len(Shown) - 1)
    /\ activeClauseIndex' = Min(Len(Shown) - 1, activeClauseIndex + 1)
    /\ lastEvent' = "next"
    /\ UNCHANGED <<text, clauses, isPlaying, searchTerm, filterType, intervals, mounted>>
    /\ UNCHANGED <<renderVars, chatVars, normVars>>

\* the play/pause button: setIsPlaying(!isPlaying)
TogglePlay ==
    /\ mounted
    /\ isPlaying' = ~isPlaying
    /\ Commit(~isPlaying, searchTerm, filterType)
    /\ lastEvent' = IF isPlaying THEN "pause" ELSE "play"
    /\ UNCHANGED <<text, clauses, activeClauseIndex, searchTerm, filterType, mounted>>
    /\ UNCHANGED <<renderVars, chatVars, normVars>>

\* onChange of the search box
SetSearch ==
    /\ mounted
    /\ \E term \in SearchTerms :
        /\ term # searchTerm
        /\ searchTerm' = term
        /\ Commit(isPlaying, term, filterType)
    /\ lastEvent' = "search"
    /\ UNCHANGED <<text, clauses, activeClauseIndex, isPlaying, filterType, mounted>>
    /\ UNCHANGED <<renderVars, chatVars, normVars>>

\* a type chip that also deselects the active clause
SetFilterResetsIndex ==
    /\ mounted
    /\ \E type \in clauseTypes(clauses) :
        /\ type # filterType
        /\ filterType' = type
        /\ Commit(isPlaying, searchTerm, type)
    /\ activeClauseIndex' = -1
    /\ lastEvent' = "filter"
    /\ UNCHANGED <<text, clauses, isPlaying, searchTerm, mounted>>
    /\ UNCHANGED <<renderVars, chatVars, normVars>>

\* onClick of a type chip
SetFilter ==
    /\ mounted
    /\ \E type \in clauseTypes(clauses) :
        /\ type # filterType
        /\ filterType' = type
        /\ Commit(isPlaying, searchTerm, type)
    /\ lastEvent' = "filter"
    /\ UNCHANGED <<text, clauses, activeClauseIndex, isPlaying, searchTerm, mounted>>
    /\ UNCHANGED <<renderVars, chatVars, normVars>>

\* a live interval fires (every 2.5 s)
Tick ==
    /\ \E k \in 1..Len(intervals) :
        LET u == TickUpdate(activeClauseIndex, intervals[k])
            playing == IF u.stop THEN FALSE ELSE isPlaying
        IN  /\ activeClauseIndex' = u.index
            /\ isPlaying' = playing
            /\ Commit(playing, searchTerm, filterType)
    /\ lastEvent' = "tick"
    /\ UNCHANGED <<text, clauses, searchTerm, filterType, mounted>>
    /\ UNCHANGED <<renderVars, chatVars, normVars>>

\* the component is unmounted: every effect's cleanup runs
Unmount ==
    /\ mounted
    /\ mounted' = FALSE
    /\ intervals' = IF isPlaying /\ Len(Shown) > 0 THEN ClearInterval(intervals) ELSE intervals
    /\ lastEvent' = "unmount"
    /\ UNCHANGED <<text, clauses, activeClauseIndex, isPlaying, searchTerm, filterType>>
    /\ UNCHANGED <<renderVars, chatVars, normVars>>

NextViewer ==
    \/ ClickCard \/ ClickHighlight \/ ClickPrev \/ ClickNext
    \/ TogglePlay \/ SetSearch \/ SetFilter \/ Tick \/ Unmount

SpecViewer == InitViewer /\ [][NextViewer]_vars

-----------------------------------------------------------------------------
(* ChatbotPage *)

\* what the textarea may hold: nothing, white space, a question
InputTexts == {"", " ", "What is this?"}
\* !inputValue.trim()
Blank(v) == v \in {"", " "}

\* e.target.files?.[0]: a file, or nothing selected
NoFile == "none"
Files == {"report.pdf"}

Message(id, sender, txt) == [id |-> id, sender |-> sender, text |-> txt]

\* the transcript of a fresh page, and the one handleClearChat sets
Greeting == <<Message(1, "bot", "greeting")>>
ClearedGreeting == <<Message(1, "bot", "cleared")>>

\* a clear that keeps the uploaded documents
ClearedDocsKept == uploadedDocs
\* setUploadedDocs([]) of handleClearChat
ClearedDocs == <<>>

\* a check that never sees an empty document list
NoDocumentsNever(docs) == FALSE
\* uploadedDocs.length === 0
NoDocuments(docs) == Len(docs) = 0

\* the sequence without its k-th element
RemoveAt(q, k) == SubSeq(q, 1, k - 1) \o SubSeq(q, k + 1, Len(q))

\* the run may start another upload or send
MayStart == opsStarted < MaxOps

InitChat ==
    /\ messages = Greeting
    /\ inputValue = ""
    /\ isLoading = FALSE
    /\ uploadedDocs = <<>>
    /\ isUploading = FALSE
    /\ pendingUploads = <<>>
    /\ pendingQueries = <<>>
    /\ pendingTimers = <<>>
    /\ opsStarted = 0
    /\ ViewerIdle /\ RenderIdle /\ NormIdle
    /\ lastEvent = "mount"

\* onChange of the textarea
TypeInput ==
    /\ \E v \in InputTexts : v # inputValue /\ inputValue' = v
    /\ lastEvent' = "type"
    /\ UNCHANGED <<messages, isLoading, uploadedDocs, isUploading, pendingUploads,
                   pendingQueries, pendingTimers>>
    /\ UNCHANGED <<opsStarted, viewerVars, renderVars, normVars>>

\* handleFileUpload up to its await.  The file input is never disabled: the label
\* only changes its looks while isUploading.
SelectFile ==
    /\ MayStart
    /\ \E file \in Files \cup {NoFile} :
        IF file = NoFile
        THEN UNCHANGED <<messages, isUploading, pendingUploads, opsStarted>>
        ELSE /\ opsStarted' = opsStarted + 1
             /\ isUploading' = TRUE
             /\ messages' = Append(messages, Message(Len(messages) + 1, "bot", "uploading"))
             /\ pendingUploads' = Append(pendingUploads, [len |-> Len(messages), file |-> file])
    /\ lastEvent' = "selectFile"
    /\ UNCHANGED <<inputValue, isLoading, uploadedDocs, pendingQueries, pendingTimers>>
    /\ UNCHANGED <<viewerVars, renderVars, normVars>>

\* uploadRAGDocument resolved: the rest of the try block, then finally
UploadResolved ==
    /\ \E k \in 1..Len(pendingUploads) :
        LET c == pendingUploads[k]
        IN  /\ uploadedDocs' = Append(uploadedDocs, [name |-> c.file])
            /\ messages' = Append(messages, Message(c.len + 2, "bot", "uploaded"))
            /\ pendingUploads' = RemoveAt(pendingUploads, k)
    /\ isUploading' = FALSE
    /\ lastEvent' = "uploadResolved"
    /\ UNCHANGED <<inputValue, isLoading, pendingQueries, pendingTimers>>
    /\ UNCHANGED <<opsStarted, viewerVars, renderVars, normVars>>

\* a failed upload that leaves the busy flag set
UploadRejectedStaysBusy ==
    /\ \E k \in 1..Len(pendingUploads) :
        LET c == pendingUploads[k]
        IN  /\ messages' = Append(messages, Message(c.len + 2, "bot", "uploadFailed"))
            /\ pendingUploads' = RemoveAt(pendingUploads, k)
    /\ isUploading' = isUploading
    /\ lastEvent' = "uploadRejected"
    /\ UNCHANGED <<inputValue, isLoading, uploadedDocs, pendingQueries, pendingTimers>>
    /\ UNCHANGED <<opsStarted, viewerVars, renderVars, normVars>>

\* uploadRAGDocument rejected: the catch block, then finally
UploadRejected ==
    /\ \E k \in 1..Len(pendingUploads) :
        LET c == pendingUploads[k]
        IN  /\ messages' = Append(messages, Message(c.len + 2, "bot", "uploadFailed"))
            /\ pendingUploads' = RemoveAt(pendingUploads, k)
    /\ isUploading' = FALSE
    /\ lastEvent' = "uploadRejected"
    /\ UNCHANGED <<inputValue, isLoading, uploadedDocs, pendingQueries, pendingTimers>>
    /\ UNCHANGED <<opsStarted, viewerVars, renderVars, normVars>>

\* handleSendMessage up to its return or its await
handleSendMessage ==
    IF Blank(inputValue)
    THEN UNCHANGED <<messages, inputValue, isLoading, pendingQueries, pendingTimers,
                     opsStarted>>
    ELSE /\ opsStarted' = opsStarted + 1
         /\ messages' = Append(messages, Message(Len(messages) + 1, "user", inputValue))
         /\ inputValue' = ""
         /\ IF NoDocuments(uploadedDocs)
            THEN /\ pendingTimers' = Append(pendingTimers, [len |-> Len(messages)])
                 /\ UNCHANGED <<isLoading, pendingQueries>>
            ELSE /\ isLoading' = TRUE
                 /\ pendingQueries' = Append(pendingQueries,
                                             [len |-> Len(messages), question |-> inputValue])
                 /\ UNCHANGED pendingTimers

\* the Send button, disabled when the input is blank or a query is loading
ClickSend ==
    /\ MayStart
    /\ ~(Blank(inputValue) \/ isLoading)
    /\ handleSendMessage
    /\ lastEvent' = "send"
    /\ UNCHANGED <<uploadedDocs, isUploading, pendingUploads>>
    /\ UNCHANGED <<viewerVars, renderVars, normVars>>

\* Enter without Shift in the textarea, which is never disabled
PressEnter ==
    /\ MayStart
    /\ handleSendMessage
    /\ lastEvent' = "send"
    /\ UNCHANGED <<uploadedDocs, isUploading, pendingUploads>>
    /\ UNCHANGED <<viewerVars, renderVars, normVars>>

\* a timeout callback that writes the transcript it captured plus its prompt
TimeoutFiredStale ==
    /\ pendingTimers # <<>>
    /\ messages' = Append(SubSeq(messages, 1, Min(Len(messages), Head(pendingTimers).len + 1)),
                          Message(Head(pendingTimers).len + 2, "bot", "pleaseUpload"))
    /\ pendingTimers' = Tail(pendingTimers)
    /\ lastEvent' = "timeout"
    /\ UNCHANGED <<inputValue, isLoading, uploadedDocs, isUploading, pendingUploads,
                   pendingQueries>>
    /\ UNCHANGED <<opsStarted, viewerVars, renderVars, normVars>>

\* the 500 ms timeout of a send without documents runs; equal delays run in order
TimeoutFired ==
    /\ pendingTimers # <<>>
    /\ messages' = Append(messages, Message(Head(pendingTimers).len + 2, "bot", "pleaseUpload"))
    /\ pendingTimers' = Tail(pendingTimers)
    /\ lastEvent' = "timeout"
    /\ UNCHANGED <<inputValue, isLoading, uploadedDocs, isUploading, pendingUploads,
                   pendingQueries>>
    /\ UNCHANGED <<opsStarted, viewerVars, renderVars, normVars>>

\* queryRAG resolved, with response.success true or false
QueryResolved ==
    /\ \E k \in 1..Len(pendingQueries), success \in BOOLEAN :
        LET c == pendingQueries[k]
        IN  /\ messages' = Append(messages,
                                  Message(c.len + 2, "bot",
                                          IF success THEN "answer" ELSE "processingError"))
            /\ pendingQueries' = RemoveAt(pendingQueries, k)
    /\ isLoading' = FALSE
    /\ lastEvent' = "queryResolved"
    /\ UNCHANGED <<inputValue, uploadedDocs, isUploading, pendingUploads, pendingTimers>>
    /\ UNCHANGED <<opsStarted, viewerVars, renderVars, normVars>>

\* a failed query that tells the user nothing
QueryRejectedSilent ==
    /\ \E k \in 1..Len(pendingQueries) : pendingQueries' = RemoveAt(pendingQueries, k)
    /\ isLoading' = FALSE
    /\ lastEvent' = "queryRejected"
    /\ UNCHANGED <<messages, inputValue, uploadedDocs, isUploading, pendingUploads,
                   pendingTimers>>
    /\ UNCHANGED <<opsStarted, viewerVars, renderVars, normVars>>

\* queryRAG rejected
QueryRejected ==
    /\ \E k \in 1..Len(pendingQueries) :
        LET c == pendingQueries[k]
        IN  /\ messages' = Append(messages, Message(c.len + 2, "bot", "queryFailed"))
            /\ pendingQueries' = RemoveAt(pendingQueries, k)
    /\ isLoading' = FALSE
    /\ lastEvent' = "queryRejected"
    /\ UNCHANGED <<inputValue, uploadedDocs, isUploading, pendingUploads, pendingTimers>>
    /\ UNCHANGED <<opsStarted, viewerVars, renderVars, normVars>>

\* handleClearChat
ClearChat ==
    /\ messages' = ClearedGreeting
    /\ uploadedDocs' = ClearedDocs
    /\ lastEvent' = "clear"
    /\ UNCHANGED <<inputValue, isLoading, isUploading, pendingUploads, pendingQueries,
                   pendingTimers>>
    /\ UNCHANGED <<opsStarted, viewerVars, renderVars, normVars>>

NextChat ==
    \/ TypeInput \/ SelectFile \/ UploadResolved \/ UploadRejected
    \/ ClickSend \/ PressEnter \/ TimeoutFired \/ QueryResolved \/ QueryRejected
    \/ ClearChat

SpecChat == InitChat /\ [][NextChat]_vars

-----------------------------------------------------------------------------
(* ClauseExtraction: the clause payload *)


\* A string field that is absent is the empty string: both are falsy for || .
\* An extraction as the backend sends it.
Extraction(cls, type, class, etext, txt, attrs) ==
    [extraction_class |-> cls, type |-> type, class |-> class,
     extraction_text |-> etext, text |-> txt, attributes |-> attrs]

\* attribute mappings: absent (which || {} turns into the empty one), and one
\* with a confidence
NoAttributes == <<>>
ConfidentAttributes == [confidence |-> "high", party |-> "Acme"]

\* values of the type fields
Str_General_Clause == <<"G", "e", "n", "e", "r", "a", "l", " ", "C", "l", "a", "u", "s", "e">>
TypeTermination == <<"T", "e", "r", "m", "i", "n", "a", "t", "i", "o", "n", " ", "C", "l", "a", "u", "s", "e">>
TypeConfidentiality == <<"C", "o", "n", "f", "i", "d", "e", "n", "t", "i", "a", "l", "i", "t", "y", " ", "A", "g", "r", "e", "e", "m", "e", "n", "t">>
TypeNotice == <<"N", "o", "t", "i", "c", "e", " ", "P", "r", "o", "v", "i", "s", "i", "o", "n">>
TypeIndemnity == <<"I", "N", "D", "E", "M", "N", "I", "T", "Y">>
TypePayment == <<"p", "a", "y", "m", "e", "n", "t", "_", "t", "e", "r", "m", "s">>
TypeDispute == <<"D", "i", "s", "p", "u", "t", "e", " ", "R", "e", "s", "o", "l", "u", "t", "i", "o", "n">>
TypeGoverning == <<"g", "o", "v", "e", "r", "n", "i", "n", "g", "_", "l", "a", "w">>
TypeInterest == <<"I", "n", "t", "e", "r", "e", "s", "t", " ", "R", "a", "t", "e">>
TypeSplitKeyword == <<"p", "a", "y", "_", "m", "e", "n", "t">>
TypeLiability == <<"l", "i", "a", "b", "i", "l", "i", "t", "y">>
TypeWarranty == <<"w", "a", "r", "r", "a", "n", "t", "y">>

\* values of the text fields
Str_No_text_available == <<"N", "o", " ", "t", "e", "x", "t", " ", "a", "v", "a", "i", "l", "a", "b", "l", "e">>
Str_null == <<"n", "u", "l", "l">>
TextLong == <<"T", "e", "n", "a", "n", "t", " ", "p", "a", "y", "s", " ", "r", "e", "n", "t">>
TextOther == <<"E", "i", "t", "h", "e", "r", " ", "p", "a", "r", "t", "y", " ", "m", "a", "y", " ", "e", "n", "d">>
TextNull == <<"N", "U", "L", "L">>
TextShort == <<"S", "h", "o", "r", "t">>
TextSix == <<"S", "i", "x", "s", "i", "x">>

\* the extractions payloads are built from, in document order
ExtractionPool ==
    << Extraction(TypeTermination, <<>>, <<>>, TextLong, <<>>, NoAttributes),
       Extraction(TypeConfidentiality, <<>>, <<>>, TextLong, <<>>, NoAttributes),
       Extraction(TypeNotice, <<>>, <<>>, TextLong, <<>>, NoAttributes),
       Extraction(TypeIndemnity, <<>>, <<>>, TextLong, <<>>, NoAttributes),
       Extraction(TypePayment, <<>>, <<>>, TextLong, <<>>, NoAttributes),
       Extraction(TypeDispute, <<>>, <<>>, TextLong, <<>>, NoAttributes),
       Extraction(TypeGoverning, <<>>, <<>>, TextLong, <<>>, NoAttributes),
       Extraction(TypeInterest, <<>>, <<>>, TextLong, <<>>, NoAttributes),
       Extraction(TypeSplitKeyword, <<>>, <<>>, TextLong, <<>>, NoAttributes),
       Extraction(<<>>, TypeLiability, TypeWarranty, TextLong, TextOther, ConfidentAttributes),
       Extraction(<<>>, TypeLiability, TypeWarranty, TextLong, TextOther, NoAttributes),
       Extraction(<<>>, <<>>, TypeWarranty, <<>>, TextOther, NoAttributes),
       Extraction(<<>>, <<>>, TypeWarranty, <<>>, TextNull, NoAttributes),
       Extraction(<<>>, <<>>, <<>>, <<>>, <<>>, NoAttributes),
       Extraction(<<>>, <<>>, <<>>, <<>>, TextShort, NoAttributes),
       Extraction(<<>>, <<>>, <<>>, <<>>, TextSix, NoAttributes) >>

\* the lists of extractions a backend run can find: up to MaxExtractions of the
\* pool, in document order
ExtractionLists ==
    {[i \in 1..Len(picks) |-> ExtractionPool[picks[i]]] :
        picks \in {p \in SeqsOver(1..Len(ExtractionPool), 0, MaxExtractions) :
                      \A i \in 1..(Len(p) - 1) : p[i] < p[i + 1]}}

\* the ways a list of extractions is delivered
Shapes == {"results", "resultsTwoModels", "clauses", "langextract"}

\* one entry of data.results
ModelResult(hasExtractions, exts, jsonText) ==
    [hasExtractions |-> hasExtractions, extractions |-> exts, jsonText |-> jsonText]

\* the payload handed to ClauseExtraction (analysisResults.langextract).  has* tell
\* whether the field is present and truthy; results lists Object.values(data.results).
Payload(present, txt, hasResults, results, hasClauses, cls, hasLangextract, hasNested, nested) ==
    [present |-> present, text |-> txt,
     hasResults |-> hasResults, results |-> results,
     hasClauses |-> hasClauses, clauses |-> cls,
     hasLangextract |-> hasLangextract,
     hasLangextractClauses |-> hasNested, langextractClauses |-> nested]

NoPayload == Payload(FALSE, <<>>, FALSE, <<>>, FALSE, <<>>, FALSE, FALSE, <<>>)

\* the document texts a payload carries at its root or inside a model result
PayloadTexts == {<<>>, TextLong \o TextOther}

\* the list l delivered in the given shape, with root text txt
Deliver(l, shape, txt) ==
    CASE shape = "results" ->
            Payload(TRUE, txt, TRUE, <<ModelResult(TRUE, l, TextOther)>>,
                    FALSE, <<>>, FALSE, FALSE, <<>>)
      [] shape = "resultsTwoModels" ->
            Payload(TRUE, txt, TRUE,
                    <<ModelResult(TRUE, SubSeq(l, 1, Min(1, Len(l))), <<>>),
                      ModelResult(TRUE, SubSeq(l, 2, Len(l)), TextOther)>>,
                    FALSE, <<>>, FALSE, FALSE, <<>>)
      [] shape = "clauses" ->
            Payload(TRUE, txt, FALSE, <<>>, TRUE, l, FALSE, FALSE, <<>>)
      [] shape = "langextract" ->
            Payload(TRUE, txt, FALSE, <<>>, FALSE, <<>>, TRUE, TRUE, l)

-----------------------------------------------------------------------------
(* ClauseExtraction: processedData *)

\* a || b for strings
OrElse(a, b) == IF a # <<>> THEN a ELSE b

\* \w of a regular expression
IsWordChar(c) == c \in LowerLetters \cup UpperLetters \cup Digits \cup {"_"}

\* .replace(/_/g, ' ')
ReplaceUnderscores(str) ==
    StringOf([i \in 1..Len(str) |-> IF str[i] = "_" THEN " " ELSE str[i]])

\* .replace(/\b\w/g, l => l.toUpperCase()): a word character that follows no word
\* character is upper-cased
CapitalizeWords(str) ==
    StringOf([i \in 1..Len(str) |->
                IF IsWordChar(str[i]) /\ (i = 1 \/ ~IsWordChar(str[i - 1]))
                THEN toUpperChar(str[i]) ELSE str[i]])

\* ext.extraction_class || ext.type || ext.class || 'General Clause'
RawType(ext) ==
    OrElse(ext.extraction_class, OrElse(ext.type, OrElse(ext.class, Str_General_Clause)))

\* the display type of a clause
DisplayType(ext) == CapitalizeWords(ReplaceUnderscores(RawType(ext)))

\* the importance rule of the clause list without the keyword "dispute"
ListImportanceNoDispute(typeLower) ==
    IF \/ includes(typeLower, <<"l", "i", "a", "b", "i", "l", "i", "t", "y">>)
       \/ includes(typeLower, <<"t", "e", "r", "m", "i", "n", "a", "t", "i", "o", "n">>)
       \/ includes(typeLower, <<"i", "n", "d", "e", "m", "n", "i", "t", "y">>)
       \/ includes(typeLower, <<"p", "a", "y", "m", "e", "n", "t">>)
    THEN "high"
    ELSE IF \/ includes(typeLower, <<"c", "o", "n", "f", "i", "d", "e", "n", "t", "i", "a", "l", "i", "t", "y">>)
            \/ includes(typeLower, <<"w", "a", "r", "r", "a", "n", "t", "y">>)
            \/ includes(typeLower, <<"g", "o", "v", "e", "r", "n", "i", "n", "g">>)
            \/ includes(typeLower, <<"i", "n", "t", "e", "r", "e", "s", "t">>)
         THEN "medium"
         ELSE "low"

\* the importance the clause list gives a lower-cased display type
ListImportance(typeLower) ==
    IF \/ includes(typeLower, <<"l", "i", "a", "b", "i", "l", "i", "t", "y">>)
       \/ includes(typeLower, <<"t", "e", "r", "m", "i", "n", "a", "t", "i", "o", "n">>)
       \/ includes(typeLower, <<"i", "n", "d", "e", "m", "n", "i", "t", "y">>)
       \/ includes(typeLower, <<"p", "a", "y", "m", "e", "n", "t">>)
       \/ includes(typeLower, <<"d", "i", "s", "p", "u", "t", "e">>)
    THEN "high"
    ELSE IF \/ includes(typeLower, <<"c", "o", "n", "f", "i", "d", "e", "n", "t", "i", "a", "l", "i", "t", "y">>)
            \/ includes(typeLower, <<"w", "a", "r", "r", "a", "n", "t", "y">>)
            \/ includes(typeLower, <<"g", "o", "v", "e", "r", "n", "i", "n", "g">>)
            \/ includes(typeLower, <<"i", "n", "t", "e", "r", "e", "s", "t">>)
         THEN "medium"
         ELSE "low"

\* ext.attributes?.confidence || 'medium'
Confidence(attrs) ==
    IF "confidence" \in DOMAIN attrs THEN attrs["confidence"] ELSE "medium"

\* the callback of clauses.map
MapClause(ext) ==
    [type |-> DisplayType(ext),
     text |-> OrElse(ext.extraction_text, OrElse(ext.text, Str_No_text_available)),
     importance |-> ListImportance(toLowerCase(DisplayType(ext))),
     confidence |-> Confidence(ext.attributes),
     attributes |-> ext.attributes]

\* a filter that forgets the length test
ValidClauseAnyLength(c) ==
    /\ c.text # <<>>
    /\ toLowerCase(c.text) # Str_null
    /\ c.text # Str_No_text_available

\* the callback of clauses.filter
ValidClause(c) ==
    /\ c.text # <<>>
    /\ toLowerCase(c.text) # Str_null
    /\ c.text # Str_No_text_available
    /\ Len(c.text) > 5

\* the extractions of every model result, in Object.values order
RECURSIVE AllExtractions(_)
AllExtractions(results) ==
    IF results = <<>> THEN <<>>
    ELSE (IF Head(results).hasExtractions THEN Head(results).extractions ELSE <<>>)
         \o AllExtractions(Tail(results))

\* a dispatch that does not know the legacy nested shape
RawClausesNoLegacy(d) ==
    IF d.hasResults THEN AllExtractions(d.results)
    ELSE IF d.hasClauses THEN d.clauses
    ELSE <<>>

\* the raw clause list: results, else clauses, else langextract.clauses
RawClauses(d) ==
    IF d.hasResults THEN AllExtractions(d.results)
    ELSE IF d.hasClauses THEN d.clauses
    ELSE IF d.hasLangextract /\ d.hasLangextractClauses THEN d.langextractClauses
    ELSE <<>>

\* the document text: data.text, else the first model result's json_output.text
FullText(d) ==
    IF d.hasResults /\ d.text = <<>> /\ d.results # <<>> /\ d.results[1].jsonText # <<>>
    THEN d.results[1].jsonText
    ELSE d.text

\* the memoised processedData
normalizeClauses(d) ==
    IF ~d.present \/ (~d.hasClauses /\ ~d.hasResults /\ ~d.hasLangextract)
    THEN [clauses |-> <<>>, totalClauses |-> 0, text |-> <<>>]
    ELSE LET mapped == [i \in 1..Len(RawClauses(d)) |-> MapClause(RawClauses(d)[i])]
             kept == SelectSeq(mapped, ValidClause)
         IN  [clauses |-> kept, totalClauses |-> Len(kept), text |-> FullText(d)]

\* !data || (!data.clauses && !data.results && !data.langextract)
ClausesMissing(d) ==
    ~d.present \/ (~d.hasClauses /\ ~d.hasResults /\ ~d.hasLangextract)

\* the computation raises a TypeError: a model result is null, or an entry of
\* the raw clause list is null
ClauseThrows(d) ==
    /\ ~ClausesMissing(d)
    /\ IF d.hasResults /\ \E m \in 1..Len(d.results) : d.results[m] = Null
       THEN TRUE
       ELSE \E i \in 1..Len(RawClauses(d)) : RawClauses(d)[i] = Null

-----------------------------------------------------------------------------
(* AnalysisCharts: riskData.  The chart reads data.langextract.clauses of the
   analysis bundle, which is the clauses field of the payload above. *)

\* the tier the chart counts a clause in
ChartTier(c) ==
    LET type == toLowerCase(RawType(c))
    IN  IF \/ includes(type, <<"l", "i", "a", "b", "i", "l", "i", "t", "y">>)
           \/ includes(type, <<"t", "e", "r", "m", "i", "n", "a", "t", "i", "o", "n">>)
           \/ includes(type, <<"i", "n", "d", "e", "m", "n", "i", "t", "y">>)
           \/ includes(type, <<"p", "a", "y", "m", "e", "n", "t">>)
           \/ includes(type, <<"d", "i", "s", "p", "u", "t", "e">>)
        THEN "High"
        ELSE IF \/ includes(type, <<"c", "o", "n", "f", "i", "d", "e", "n", "t", "i", "a", "l", "i", "t", "y">>)
                \/ includes(type, <<"w", "a", "r", "r", "a", "n", "t", "y">>)
                \/ includes(type, <<"g", "o", "v", "e", "r", "n", "i", "n", "g">>)
                \/ includes(type, <<"i", "n", "t", "e", "r", "e", "s", "t">>)
             THEN "Medium"
             ELSE "Low"

\* how many clauses of the list the chart counts in a tier
TierCount(cls, tier) == Cardinality({i \in 1..Len(cls) : ChartTier(cls[i]) = tier})

\* the memoised riskData: the tiers with a count above zero, in the order High,
\* Medium, Low
computeRiskData(d) ==
    IF ~d.present \/ ~d.hasClauses THEN <<>>
    ELSE SelectSeq(<<[name |-> "High Risk", value |-> TierCount(d.clauses, "High")],
                     [name |-> "Medium Risk", value |-> TierCount(d.clauses, "Medium")],
                     [name |-> "Low Risk", value |-> TierCount(d.clauses, "Low")]>>,
                   LAMBDA item : item.value > 0)

-----------------------------------------------------------------------------
(* The results page renders the clause list and the charts from one payload *)

InitNorm ==
    /\ extractions \in ExtractionLists
    /\ \E shape \in Shapes, txt \in PayloadTexts : data = Deliver(extractions, shape, txt)
    /\ processedData = <<>>
    /\ riskData = <<>>
    /\ normPc = {}
    /\ ner = <<>> /\ finbert = <<>> /\ nerProcessed = <<>> /\ sentimentProcessed = <<>>
    /\ sentimentData = <<>> /\ entityData = <<>> /\ thrown = {}
    /\ ViewerIdle /\ RenderIdle /\ ChatIdle /\ ResultsIdle
    /\ lastEvent = "payload"

\* ClauseExtraction renders: useMemo computes processedData
RenderClauseList ==
    /\ "list" \notin normPc
    /\ IF ClauseThrows(data)
       THEN thrown' = thrown \cup {"list"} /\ UNCHANGED processedData
       ELSE processedData' = normalizeClauses(data) /\ UNCHANGED thrown
    /\ normPc' = normPc \cup {"list"}
    /\ lastEvent' = "list"
    /\ UNCHANGED <<extractions, data, riskData, viewerVars, renderVars, chatVars, resultsVars>>
    /\ UNCHANGED <<ner, finbert, nerProcessed, sentimentProcessed, sentimentData, entityData>>

\* the riskData computation raises a TypeError: an entry of
\* data.langextract.clauses is null
RiskChartThrows(d) ==
    /\ d.present /\ d.hasClauses
    /\ \E i \in 1..Len(d.clauses) : d.clauses[i] = Null

\* AnalysisCharts renders: useMemo computes riskData
RenderCharts ==
    /\ "chart" \notin normPc
    /\ IF RiskChartThrows(data)
       THEN thrown' = thrown \cup {"chart"} /\ UNCHANGED riskData
       ELSE riskData' = computeRiskData(data) /\ UNCHANGED thrown
    /\ normPc' = normPc \cup {"chart"}
    /\ lastEvent' = "chart"
    /\ UNCHANGED <<extractions, data, processedData, viewerVars, renderVars, chatVars, resultsVars>>
    /\ UNCHANGED <<ner, finbert, nerProcessed, sentimentProcessed, sentimentData, entityData>>

NextNorm == RenderClauseList \/ RenderCharts

SpecNorm == InitNorm /\ [][NextNorm]_vars

-----------------------------------------------------------------------------
(* SentimentAnalysis: the sentiment payload *)

\* an entry of sentence_results; an absent label is the empty string, an absent
\* score is 0 (both falsy)
Sentence(txt, label, score) == [text |-> txt, label |-> label, score |-> score]

Str_neutral == <<"n", "e", "u", "t", "r", "a", "l">>
Str_positive == <<"p", "o", "s", "i", "t", "i", "v", "e">>
Str_negative == <<"n", "e", "g", "a", "t", "i", "v", "e">>
LabelPositiveUpper == <<"P", "O", "S", "I", "T", "I", "V", "E">>
LabelNegativeUpper == <<"N", "E", "G", "A", "T", "I", "V", "E">>
LabelMixed == <<"M", "i", "x", "e", "d">>

\* the sentences payloads are built from, in document order
SentencePool ==
    << Sentence(TextLong, LabelPositiveUpper, 90),
       Sentence(TextOther, Str_negative, 80),
       Sentence(TextSix, <<>>, 0),
       Sentence(TextShort, LabelMixed, 50),
       Null >>

\* up to MaxSentences of the pool, in document order
SentenceLists ==
    {[i \in 1..Len(picks) |-> SentencePool[picks[i]]] :
        picks \in {p \in SeqsOver(1..Len(SentencePool), 0, MaxSentences) :
                      \A i \in 1..(Len(p) - 1) : p[i] < p[i + 1]}}

\* data.statistics: overall_sentiment (empty when absent), average_scores by
\* label (absent labels are outside its domain) and sentiment_distribution
\* (absent counts are outside its domain)
Statistics(overall, hasScores, scores, hasDistribution, distribution) ==
    [overall_sentiment |-> overall,
     hasAverageScores |-> hasScores, average_scores |-> scores,
     hasDistribution |-> hasDistribution, sentiment_distribution |-> distribution]

AverageScores == (Str_positive :> 90) @@ (Str_negative :> 10)

StatisticsPool ==
    { Statistics(Str_positive, TRUE, AverageScores, TRUE,
                 [positive |-> 3, negative |-> 1, neutral |-> 2]),
      Statistics(LabelNegativeUpper, TRUE, AverageScores, FALSE, <<>>),
      Statistics(<<>>, FALSE, <<>>, TRUE, [positive |-> 2]) }

\* the payload handed to SentimentAnalysis (analysisResults.finbert).
\* sentencesKind: "absent", "list" or "other" (a truthy value that is no array)
SentimentPayload(present, hasStatistics, statistics, sentencesKind, sentences) ==
    [present |-> present,
     hasStatistics |-> hasStatistics, statistics |-> statistics,
     sentencesKind |-> sentencesKind, sentence_results |-> sentences]

NoSentiment == SentimentPayload(FALSE, FALSE, <<>>, "absent", <<>>)

SentimentPayloads ==
    {NoSentiment}
    \cup {SentimentPayload(TRUE, FALSE, <<>>, k, <<>>) : k \in {"absent", "other"}}
    \cup {SentimentPayload(TRUE, FALSE, <<>>, "list", l) : l \in SentenceLists}
    \cup {SentimentPayload(TRUE, TRUE, st, k, <<>>) :
            st \in StatisticsPool, k \in {"absent", "other"}}
    \cup {SentimentPayload(TRUE, TRUE, st, "list", l) :
            st \in StatisticsPool, l \in SentenceLists}

-----------------------------------------------------------------------------
(* SentimentAnalysis: processedData *)

\* a neutral record that claims a positive document
DefaultSentimentPositive ==
    [overallSentiment |-> Str_positive, score |-> 0, confidence |-> 0,
     sentenceAnalysis |-> <<>>]

\* the record returned for missing data
DefaultSentiment ==
    [overallSentiment |-> Str_neutral, score |-> 0, confidence |-> 0,
     sentenceAnalysis |-> <<>>]

\* !data || (!data.statistics && !data.sentence_results)
SentimentMissing(d) ==
    ~d.present \/ (~d.hasStatistics /\ d.sentencesKind = "absent")

\* data.sentence_results || []
SentencesOf(d) == IF d.sentencesKind = "absent" THEN <<>> ELSE d.sentence_results

\* the callback of sentences.map
MapSentence(sn) ==
    [text |-> sn.text,
     sentiment |-> toLowerCase(OrElse(sn.label, Str_neutral)),
     score |-> sn.score]

\* data.statistics?.average_scores?.[data.statistics?.overall_sentiment] || 0
OverallScore(d) ==
    IF /\ d.hasStatistics
       /\ d.statistics.hasAverageScores
       /\ d.statistics.overall_sentiment \in DOMAIN d.statistics.average_scores
    THEN d.statistics.average_scores[d.statistics.overall_sentiment]
    ELSE 0

\* (data.statistics?.overall_sentiment || 'neutral').toLowerCase()
OverallSentiment(d) ==
    toLowerCase(IF d.hasStatistics THEN OrElse(d.statistics.overall_sentiment, Str_neutral)
                ELSE Str_neutral)

\* the computation raises a TypeError: sentence_results has no map, or an entry
\* of it is null
SentimentThrows(d) ==
    /\ ~SentimentMissing(d)
    /\ \/ d.sentencesKind = "other"
       \/ \E i \in 1..Len(SentencesOf(d)) : SentencesOf(d)[i] = Null

\* the memoised processedData of SentimentAnalysis, when nothing is raised
normalizeSentiment(d) ==
    IF SentimentMissing(d) THEN DefaultSentiment
    ELSE [overallSentiment |-> OverallSentiment(d),
          score |-> OverallScore(d),
          confidence |-> OverallScore(d),
          sentenceAnalysis |-> [i \in 1..Len(SentencesOf(d)) |-> MapSentence(SentencesOf(d)[i])]]

-----------------------------------------------------------------------------
(* AnalysisCharts: sentimentData *)

\* dist.<key> || 0
CountOf(dist, key) == IF key \in DOMAIN dist THEN dist[key] ELSE 0

ZeroSentimentData ==
    << [name |-> "Positive", value |-> 0],
       [name |-> "Negative", value |-> 0],
       [name |-> "Neutral", value |-> 0] >>

\* the memoised sentimentData; d is data.finbert
computeSentimentData(d) ==
    IF ~d.present THEN <<>>
    ELSE IF d.hasStatistics /\ d.statistics.hasDistribution
         THEN << [name |-> "Positive", value |-> CountOf(d.statistics.sentiment_distribution, "positive")],
                 [name |-> "Negative", value |-> CountOf(d.statistics.sentiment_distribution, "negative")],
                 [name |-> "Neutral", value |-> CountOf(d.statistics.sentiment_distribution, "neutral")] >>
         ELSE ZeroSentimentData

-----------------------------------------------------------------------------
(* NERAnalysis: processedData.  Labels and entity texts are only copied and
   compared, so they are plain strings; an absent string field is "". *)

Entity(label, type, txt) == [label |-> label, type |-> type, text |-> txt]

\* the entities payloads are built from, in document order
EntityPool ==
    << Entity("ORG", "", "Acme"),
       Entity("", "PERSON", "Ann"),
       Entity("ORG", "COMPANY", "Bolt"),
       Entity("", "", "misc"),
       Null >>

\* up to MaxEntities of the pool, in document order
EntityLists ==
    {[i \in 1..Len(picks) |-> EntityPool[picks[i]]] :
        picks \in {p \in SeqsOver(1..Len(EntityPool), 0, MaxEntities) :
                      \A i \in 1..(Len(p) - 1) : p[i] < p[i + 1]}}

\* the payload handed to NERAnalysis (analysisResults.ner).
\* entitiesKind: "absent", "list" or "other" (a truthy value that is no array)
NerPayload(present, entitiesKind, entities) ==
    [present |-> present, entitiesKind |-> entitiesKind, entities |-> entities]

NoNer == NerPayload(FALSE, "absent", <<>>)

NerPayloads ==
    {NoNer, NerPayload(TRUE, "absent", <<>>), NerPayload(TRUE, "other", <<>>)}
    \cup {NerPayload(TRUE, "list", l) : l \in EntityLists}

\* colorMap, each class string named by its colour
colorMap ==
    [ORG |-> "purple", COMPANY |-> "purple", REVENUE |-> "blue", STOCK_PRICE |-> "cyan",
     MARKET_CAP |-> "green", FINANCIAL_EVENT |-> "pink", FINANCIAL_RATIO |-> "orange",
     PERSON |-> "indigo", LOCATION |-> "teal", GPE |-> "teal", DATE |-> "amber",
     MONEY |-> "emerald"]

\* colorMap[type] || the gray default
ColorOf(type) == IF type \in DOMAIN colorMap THEN colorMap[type] ELSE "gray"

\* entity.label || entity.type || 'OTHER'
EntityType(entity) ==
    IF entity.label # "" THEN entity.label
    ELSE IF entity.type # "" THEN entity.type ELSE "OTHER"

\* the most examples a group keeps
MaxExamples == 10

\* the callback of data.entities.forEach: count the entity in the group of its
\* type, creating the group at the end when it is new
AddEntity(groups, entity) ==
    IF \E g \in 1..Len(groups) : groups[g].type = EntityType(entity)
    THEN [g \in 1..Len(groups) |->
            IF groups[g].type = EntityType(entity)
            THEN [groups[g] EXCEPT
                    !.count = @ + 1,
                    !.examples = IF Len(@) < MaxExamples THEN Append(@, entity.text) ELSE @]
            ELSE groups[g]]
    ELSE Append(groups, [type |-> EntityType(entity), color |-> ColorOf(EntityType(entity)),
                         count |-> 1, examples |-> <<entity.text>>])

\* the groups after the first n entities, in the order the types first appear
RECURSIVE EntityGroups(_, _)
EntityGroups(entities, n) ==
    IF n = 0 THEN <<>> ELSE AddEntity(EntityGroups(entities, n - 1), entities[n])

\* !data || !data.entities
NerMissing(d) == ~d.present \/ d.entitiesKind = "absent"

\* the computation raises a TypeError: entities has no forEach, or an entry of
\* it is null
NerThrows(d) ==
    /\ ~NerMissing(d)
    /\ \/ d.entitiesKind = "other"
       \/ \E i \in 1..Len(d.entities) : d.entities[i] = Null

\* the memoised processedData of NERAnalysis, when nothing is raised
normalizeNER(d) ==
    IF NerMissing(d) THEN [entities |-> <<>>, totalEntities |-> 0]
    ELSE [entities |-> EntityGroups(d.entities, Len(d.entities)),
          totalEntities |-> Len(d.entities)]

-----------------------------------------------------------------------------
(* AnalysisCharts: entityData *)

\* the property name counts[e.label] uses: an absent label is the key "undefined"
ChartKey(entity) == IF entity.label = "" THEN "undefined" ELSE entity.label

\* the callback of data.ner.entities.forEach: counts[e.label] = (counts[e.label] || 0) + 1,
\* counts kept in the order its keys were created
AddCount(counts, entity) ==
    IF \E k \in 1..Len(counts) : counts[k].name = ChartKey(entity)
    THEN [k \in 1..Len(counts) |->
            IF counts[k].name = ChartKey(entity)
            THEN [counts[k] EXCEPT !.value = @ + 1]
            ELSE counts[k]]
    ELSE Append(counts, [name |-> ChartKey(entity), value |-> 1])

\* counts after the first n entities, as the mapped Object.keys(counts)
RECURSIVE EntityCounts(_, _)
EntityCounts(entities, n) ==
    IF n = 0 THEN <<>> ELSE AddCount(EntityCounts(entities, n - 1), entities[n])

\* one insertion of the stable sort by value, descending: after every entry that
\* is not smaller
InsertByValue(sorted, item) ==
    LET before == Cardinality({k \in 1..Len(sorted) : sorted[k].value >= item.value})
    IN  SubSeq(sorted, 1, before) \o <<item>> \o SubSeq(sorted, before + 1, Len(sorted))

\* .sort((a, b) => b.value - a.value)
RECURSIVE SortByValue(_, _)
SortByValue(items, n) ==
    IF n = 0 THEN <<>> ELSE InsertByValue(SortByValue(items, n - 1), items[n])

\* the number of categories the chart keeps
MaxChartEntries == 10

\* !data.ner || !data.ner.entities
ChartNerMissing(d) == ~d.present \/ d.entitiesKind = "absent"

\* the computation raises a TypeError: entities has no forEach, or an entry of
\* it is null
EntityChartThrows(d) ==
    /\ ~ChartNerMissing(d)
    /\ \/ d.entitiesKind = "other"
       \/ \E i \in 1..Len(d.entities) : d.entities[i] = Null

\* the memoised entityData of AnalysisCharts, when nothing is raised
computeEntityData(d) ==
    IF ChartNerMissing(d) THEN <<>>
    ELSE LET counts == EntityCounts(d.entities, Len(d.entities))
             sorted == SortByValue(counts, Len(counts))
         IN  SubSeq(sorted, 1, Min(MaxChartEntries, Len(sorted)))

-----------------------------------------------------------------------------
(* The results page renders its tabs from one analysis bundle; a payload may be
   absent or malformed *)

\* the text of a document
DocumentText == TextLong \o TextOther

\* clause payloads beyond the well-formed deliveries: none at all, one with the
\* document text and no clause list, deliveries with and without a root text,
\* a null model result, a null entry in the flat list
ClausePanelPayloads ==
    { NoPayload,
      Payload(TRUE, DocumentText, FALSE, <<>>, FALSE, <<>>, FALSE, FALSE, <<>>),
      Payload(TRUE, <<>>, FALSE, <<>>, FALSE, <<>>, TRUE, FALSE, <<>>),
      Deliver(<<ExtractionPool[1]>>, "clauses", <<>>),
      Deliver(<<ExtractionPool[1]>>, "clauses", DocumentText),
      Deliver(<<ExtractionPool[1]>>, "results", <<>>),
      Deliver(<<ExtractionPool[1]>>, "results", DocumentText),
      Deliver(<<ExtractionPool[1]>>, "resultsTwoModels", <<>>),
      Payload(TRUE, <<>>, TRUE, <<ModelResult(TRUE, <<ExtractionPool[1]>>, TextOther), Null>>,
              FALSE, <<>>, FALSE, FALSE, <<>>),
      Payload(TRUE, DocumentText, FALSE, <<>>, TRUE, <<ExtractionPool[1], Null>>,
              FALSE, FALSE, <<>>) }

\* a complete payload of each kind
SampleNer == NerPayload(TRUE, "list", <<EntityPool[1], EntityPool[2]>>)
SampleSentiment ==
    SentimentPayload(TRUE, TRUE,
                     Statistics(Str_positive, TRUE, AverageScores, TRUE,
                                [positive |-> 3, negative |-> 1, neutral |-> 2]),
                     "list", <<SentencePool[1]>>)
SampleClauses == Deliver(<<ExtractionPool[1]>>, "clauses", DocumentText)

\* the bundle the page received: one payload is drawn from all payloads of its
\* kind, each of the other two is absent or complete
InitPanels ==
    /\ \/ /\ ner \in NerPayloads
          /\ finbert \in {NoSentiment, SampleSentiment}
          /\ data \in {NoPayload, SampleClauses}
       \/ /\ ner \in {NoNer, SampleNer}
          /\ finbert \in SentimentPayloads
          /\ data \in {NoPayload, SampleClauses}
       \/ /\ ner \in {NoNer, SampleNer}
          /\ finbert \in {NoSentiment, SampleSentiment}
          /\ data \in ClausePanelPayloads
    /\ extractions = <<>> /\ processedData = <<>> /\ riskData = <<>>
    /\ nerProcessed = <<>> /\ sentimentProcessed = <<>> /\ sentimentData = <<>>
    /\ entityData = <<>>
    /\ normPc = {} /\ thrown = {}
    /\ ViewerIdle /\ RenderIdle /\ ChatIdle /\ ResultsIdle
    /\ lastEvent = "bundle"

\* SentimentAnalysis renders, after AnalysisCharts and while no render has raised:
\* useMemo computes processedData
RenderSentiment ==
    /\ "sentiment" \notin normPc
    /\ "chart" \in normPc /\ thrown = {}
    /\ IF SentimentThrows(finbert)
       THEN thrown' = thrown \cup {"sentiment"} /\ UNCHANGED sentimentProcessed
       ELSE sentimentProcessed' = normalizeSentiment(finbert) /\ UNCHANGED thrown
    /\ normPc' = normPc \cup {"sentiment"}
    /\ lastEvent' = "sentiment"
    /\ UNCHANGED <<extractions, data, processedData, riskData>>
    /\ UNCHANGED <<ner, finbert, nerProcessed, sentimentData, entityData>>
    /\ UNCHANGED <<viewerVars, renderVars, chatVars, resultsVars>>

\* NERAnalysis renders: useMemo computes processedData
RenderNer ==
    /\ "ner" \notin normPc
    /\ "chart" \in normPc /\ thrown = {}
    /\ IF NerThrows(ner)
       THEN thrown' = thrown \cup {"ner"} /\ UNCHANGED nerProcessed
       ELSE nerProcessed' = normalizeNER(ner) /\ UNCHANGED thrown
    /\ normPc' = normPc \cup {"ner"}
    /\ lastEvent' = "ner"
    /\ UNCHANGED <<extractions, data, processedData, riskData>>
    /\ UNCHANGED <<ner, finbert, sentimentProcessed, sentimentData, entityData>>
    /\ UNCHANGED <<viewerVars, renderVars, chatVars, resultsVars>>

\* AnalysisCharts renders: useMemo computes sentimentData
RenderSentimentChart ==
    /\ "sentimentChart" \notin normPc
    /\ "entityChart" \in normPc /\ thrown = {}
    /\ sentimentData' = computeSentimentData(finbert)
    /\ normPc' = normPc \cup {"sentimentChart"}
    /\ lastEvent' = "sentimentChart"
    /\ UNCHANGED <<extractions, data, processedData, riskData>>
    /\ UNCHANGED <<ner, finbert, nerProcessed, sentimentProcessed, entityData, thrown>>
    /\ UNCHANGED <<viewerVars, renderVars, chatVars, resultsVars>>

\* AnalysisCharts renders: useMemo computes entityData
RenderEntityChart ==
    /\ "entityChart" \notin normPc
    /\ thrown = {}
    /\ IF EntityChartThrows(ner)
       THEN thrown' = thrown \cup {"entityChart"} /\ UNCHANGED entityData
       ELSE entityData' = computeEntityData(ner) /\ UNCHANGED thrown
    /\ normPc' = normPc \cup {"entityChart"}
    /\ lastEvent' = "entityChart"
    /\ UNCHANGED <<extractions, data, processedData, riskData>>
    /\ UNCHANGED <<ner, finbert, nerProcessed, sentimentProcessed, sentimentData>>
    /\ UNCHANGED <<viewerVars, renderVars, chatVars, resultsVars>>

\* AnalysisCharts renders: the third memo, riskData, after entityData and
\* sentimentData of the same render
RenderRiskChart ==
    /\ "sentimentChart" \in normPc /\ thrown = {}
    /\ RenderCharts

\* ClauseExtraction renders on the page, after AnalysisCharts and while no
\* render has raised
RenderClausePanel ==
    /\ "chart" \in normPc /\ thrown = {}
    /\ RenderClauseList

\* one page render runs the memos of AnalysisCharts in the order entityData,
\* sentimentData, riskData, then the panel of the active tab; a memo that raises
\* abandons the render, and a click on another tab renders its panel
NextPanels == RenderEntityChart \/ RenderSentimentChart \/ RenderRiskChart \/ RenderSentiment \/ RenderNer \/ RenderClausePanel

SpecPanels == InitPanels /\ [][NextPanels]_vars

-----------------------------------------------------------------------------
(* Results: the page loads its bundle in an effect after the first render *)

\* the three setActiveTab branches: the first selected analysis, else no change
TabFor(features, current) ==
    IF features = Null THEN current
    ELSE IF features.ner THEN "ner"
    ELSE IF features.sentiment THEN "sentiment"
    ELSE IF features.clauses THEN "clause"
    ELSE current

\* location.state?.analysisResults || globalResults
BundleToLoad == IF location.hasState /\ location.analysisResults # Null THEN location.analysisResults ELSE globalResults

\* the first render: analysisResults is null, the page shows the waiting state
InitResults ==
    /\ location \in LocationStates
    /\ globalResults \in {Null, Bundle("global")}
    /\ sessionStore \in SessionStores
    /\ resultsState = InitialResultsState
    /\ resultsPc = "mounted"
    /\ resultsView = "waiting"
    /\ ViewerIdle /\ RenderIdle /\ ChatIdle
    /\ extractions = <<>> /\ data = <<>> /\ processedData = <<>> /\ riskData = <<>>
    /\ normPc = {}
    /\ ner = <<>> /\ finbert = <<>> /\ nerProcessed = <<>> /\ sentimentProcessed = <<>>
    /\ sentimentData = <<>> /\ entityData = <<>> /\ thrown = {}
    /\ lastEvent = "mountResults"

\* the useEffect on [location].  With a bundle it reads
\* location.state.selectedFeatures without a guard: a null location.state raises
\* a TypeError in the effect, which no error boundary catches
LoadResults ==
    /\ resultsPc = "mounted"
    /\ IF BundleToLoad # Null
       THEN IF ~location.hasState
            THEN /\ resultsPc' = "error"
                 /\ resultsView' = "error"
                 /\ UNCHANGED resultsState
            ELSE /\ resultsState' =
                        [analysisResults |-> BundleToLoad,
                         selectedAnalyses |-> IF location.selectedFeatures # Null
                                              THEN location.selectedFeatures
                                              ELSE resultsState.selectedAnalyses,
                         uploadedFiles |-> IF location.fileName # ""
                                           THEN <<location.fileName>> ELSE <<>>,
                         activeTab |-> TabFor(location.selectedFeatures,
                                              resultsState.activeTab)]
                 /\ resultsPc' = "loaded"
                 /\ UNCHANGED resultsView
       ELSE /\ resultsState' =
                   [resultsState EXCEPT
                      !.selectedAnalyses = IF sessionStore.selectedAnalyses # Null
                                           THEN sessionStore.selectedAnalyses ELSE @,
                      !.activeTab = TabFor(sessionStore.selectedAnalyses, @),
                      !.uploadedFiles = IF sessionStore.hasFiles
                                        THEN sessionStore.uploadedFiles ELSE @]
            /\ resultsPc' = "loaded"
            /\ UNCHANGED resultsView
    /\ lastEvent' = "loadResults"
    /\ UNCHANGED <<location, globalResults, sessionStore>>
    /\ UNCHANGED <<viewerVars, renderVars, chatVars>>
    /\ UNCHANGED <<extractions, data, processedData, riskData, normPc, panelVars>>

\* the render after the effect: if (!analysisResults) the waiting state, else
\* the analysis
RenderResults ==
    /\ resultsPc = "loaded"
    /\ resultsView' = IF resultsState.analysisResults = Null THEN "waiting" ELSE "analysis"
    /\ resultsPc' = "rendered"
    /\ lastEvent' = "renderResults"
    /\ UNCHANGED <<location, globalResults, sessionStore, resultsState>>
    /\ UNCHANGED <<viewerVars, renderVars, chatVars>>
    /\ UNCHANGED <<extractions, data, processedData, riskData, normPc, panelVars>>

\* Return to Upload on the waiting state: navigate('/upload')
ReturnToUpload ==
    /\ resultsPc = "rendered" /\ resultsView = "waiting"
    /\ resultsPc' = "left"
    /\ resultsView' = "none"
    /\ lastEvent' = "returnToUpload"
    /\ UNCHANGED <<location, globalResults, sessionStore, resultsState>>
    /\ UNCHANGED <<viewerVars, renderVars, chatVars>>
    /\ UNCHANGED <<extractions, data, processedData, riskData, normPc, panelVars>>

\* the tab buttons shown: allTabs filtered by selectedAnalyses
Tabs(selected) ==
    (IF selected.ner THEN {"ner"} ELSE {})
    \cup (IF selected.sentiment THEN {"sentiment"} ELSE {})
    \cup (IF selected.clauses THEN {"clause"} ELSE {})

\* a click on a tab button of the analysis view: setActiveTab(tab.id)
SelectTab ==
    /\ resultsPc = "rendered" /\ resultsView = "analysis"
    /\ \E tab \in Tabs(resultsState.selectedAnalyses) :
          resultsState' = [resultsState EXCEPT !.activeTab = tab]
    /\ lastEvent' = "selectTab"
    /\ UNCHANGED <<location, globalResults, sessionStore, resultsPc, resultsView>>
    /\ UNCHANGED <<viewerVars, renderVars, chatVars>>
    /\ UNCHANGED <<extractions, data, processedData, riskData, normPc, panelVars>>

\* Analyze More Documents on the analysis view: handleAnalyzeMore calls
\* navigate('/upload')
AnalyzeMore ==
    /\ resultsPc = "rendered" /\ resultsView = "analysis"
    /\ resultsPc' = "left"
    /\ resultsView' = "none"
    /\ lastEvent' = "analyzeMore"
    /\ UNCHANGED <<location, globalResults, sessionStore, resultsState>>
    /\ UNCHANGED <<viewerVars, renderVars, chatVars>>
    /\ UNCHANGED <<extractions, data, processedData, riskData, normPc, panelVars>>

NextResults == LoadResults \/ RenderResults \/ ReturnToUpload \/ SelectTab \/ AnalyzeMore

SpecResults == InitResults /\ [][NextResults]_vars

-----------------------------------------------------------------------------
(* Auto-play left alone: the user prepares the viewer while it is paused, presses
   play, and then only the timer acts.  A live interval fires every 2.5 s, so a
   tick that stays possible is eventually taken. *)

NextAutoPlay ==
    \/ /\ ~isPlaying
       /\ \/ ClickCard \/ ClickHighlight \/ ClickPrev \/ ClickNext
          \/ SetSearch \/ SetFilter \/ TogglePlay
    \/ Tick

SpecAutoPlay == InitViewer /\ [][NextAutoPlay]_vars /\ WF_vars(Tick)

-----------------------------------------------------------------------------
(* Claims about the highlight walk, checked under SpecRender *)

\* the cards of the sidebar list: one per entry of sortedClauses
SidebarCards == [i \in 1..Len(Shown) |-> [idx |-> i - 1, clause |-> Shown[i]]]

(* C1: for every text, clause list, search term and type filter, the highlight
   spans emitted by the walk are in strictly increasing start order and never
   overlap: each span ends at or before the start of the next one. *)
C1_SpansOrdered ==
    LET hs == Highlights(elements)
    IN  \A i \in 1..(Len(hs) - 1) :
            /\ hs[i].end <= hs[i + 1].start
            /\ hs[i].start < hs[i + 1].start

\* a finished render with two spans and a clause that got none, under a search term
C1_Witness ==
    /\ renderPc = "done"
    /\ searchTerm # <<>>
    /\ Len(Highlights(elements)) >= 2
    /\ Len(Highlights(elements)) < Len(Shown)

(* C2: the walk's cursor starts at 0; each clause of the sorted list, in order, is
   anchored at the first occurrence of its text at or after the cursor, a span
   [start, start + len) is emitted and the cursor moves to start + len; with no
   occurrence at or after the cursor the clause gets no span, the cursor stays,
   and the clause is still a card of the sidebar list. *)
C2_CursorWalk ==
    [][/\ walkPos = 0 => lastIndex = 0 /\ Highlights(elements) = <<>>
       /\ walkPos' = walkPos + 1 =>
            LET c == Shown[walkPos + 1]
                start == indexOf(text, c.text, lastIndex)
            IN  IF start # -1
                THEN /\ Highlights(elements') =
                            Append(Highlights(elements),
                                   Segment("highlight", walkPos, start, start + Len(c.text)))
                     /\ lastIndex' = start + Len(c.text)
                ELSE /\ elements' = elements
                     /\ lastIndex' = lastIndex
                     /\ UNCHANGED <<text, clauses, searchTerm, filterType>>
                     /\ SidebarCards[walkPos + 1].clause = c
      ]_vars

\* mid-walk: one clause anchored, the next one found only before the cursor
C2_Witness ==
    /\ renderPc = "walk"
    /\ walkPos = 2
    /\ Len(Highlights(elements)) = 1
    /\ lastIndex > 0
    /\ includes(text, Shown[2].text)

(* C29: highlight rendering is lossless: for every non-empty text, clause
   list, search term and filter, the texts of the rendered segments, plain and
   highlighted, concatenated in order are exactly the document text, and every
   highlighted segment shows the text of its clause. *)
C29_RenderLossless ==
    (renderPc = "done" /\ text # <<>>) =>
        /\ RenderedText(text, elements) = text
        /\ \A i \in 1..Len(elements) :
               elements[i].kind = "highlight" =>
                   SegmentText(text, elements[i]) = Shown[elements[i].idx + 1].text

\* a finished render under a search term: plain text, a highlight, plain text
C29_Witness ==
    /\ renderPc = "done"
    /\ searchTerm # <<>>
    /\ Len(elements) = 3
    /\ elements[1].kind = "text"
    /\ elements[2].kind = "highlight"
    /\ elements[3].kind = "text"
    /\ elements[3].end = Len(text)

-----------------------------------------------------------------------------
(* Claims about the viewer's auto-play, checked under SpecViewer *)

(* C7: over a filtered list of N >= 1 clauses, a timer tick advances
   activeClauseIndex by exactly 1 while it is below N-1 and leaves playing alone;
   the tick that finds the index at or beyond N-1 sets playing to false and keeps
   the index; the index never wraps to 0.  (N = 3 from index 0: the third tick
   leaves index 2 and playing = false.) *)
C7_AutoPlayTick ==
    [][lastEvent' = "tick" =>
        /\ Len(Shown) >= 1
        /\ isPlaying
        /\ IF activeClauseIndex < Len(Shown) - 1
           THEN activeClauseIndex' = activeClauseIndex + 1 /\ isPlaying'
           ELSE activeClauseIndex' = activeClauseIndex /\ ~isPlaying'
      ]_vars

\* the tick that ends auto-play over three clauses, at the last one
C7_Witness ==
    /\ lastEvent = "tick"
    /\ Len(Shown) = 3
    /\ activeClauseIndex = 2
    /\ ~isPlaying

(* C8: at most one auto-play interval is live in any state, and none is live once
   playing is false or the component is unmounted, so that no tick can change
   activeClauseIndex or playing after pause or unmount. *)
C8_SingleTimer ==
    /\ Len(intervals) <= 1
    /\ (~isPlaying \/ ~mounted) => intervals = <<>>

\* unmounted in the middle of auto-play over a non-empty list
C8_Witness ==
    /\ ~mounted
    /\ isPlaying
    /\ Len(Shown) > 0
    /\ activeClauseIndex >= 0
    /\ intervals = <<>>

-----------------------------------------------------------------------------
(* Claims about the chat page, checked under SpecChat *)

(* C3: while a query is in flight a further send trigger (Send button or Enter)
   issues no new query request: at most one query request is in flight in any
   reachable state. *)
C3_SingleQueryInFlight == Len(pendingQueries) <= 1

(* C4: message ids are strictly increasing along the transcript, and each id is
   the transcript length at the moment the message was appended, that is, its
   position; ids restart from 1 after a clear. *)
C4_MonotonicIds ==
    /\ \A i \in 1..(Len(messages) - 1) : messages[i].id < messages[i + 1].id
    /\ \A i \in 1..Len(messages) : messages[i].id = i

(* C5: a send of non-blank text that sees an empty uploaded-document list appends
   the user message at once, schedules exactly one delayed prompt and issues no
   query request; each delayed prompt, when its delay has passed, appends exactly
   one bot message asking for an upload; and no step ever issues a query request
   while the uploaded-document list is empty. *)
C5_NoDocumentSend ==
    [][/\ (lastEvent' = "send" /\ ~Blank(inputValue) /\ uploadedDocs = <<>>) =>
            /\ Len(messages') = Len(messages) + 1
            /\ SubSeq(messages', 1, Len(messages)) = messages
            /\ messages'[Len(messages')].sender = "user"
            /\ messages'[Len(messages')].text = inputValue
            /\ Len(pendingTimers') = Len(pendingTimers) + 1
            /\ pendingQueries' = pendingQueries
            /\ isLoading' = isLoading
       /\ lastEvent' = "timeout" =>
            /\ Len(messages') = Len(messages) + 1
            /\ SubSeq(messages', 1, Len(messages)) = messages
            /\ messages'[Len(messages')].sender = "bot"
            /\ messages'[Len(messages')].text = "pleaseUpload"
            /\ Len(pendingTimers') = Len(pendingTimers) - 1
            /\ pendingQueries' = pendingQueries
       /\ Len(pendingQueries') > Len(pendingQueries) => uploadedDocs # <<>>
      ]_vars

\* the delayed prompt has answered a question sent without any document
C5_Witness ==
    /\ lastEvent = "timeout"
    /\ uploadedDocs = <<>>
    /\ Len(messages) = 3
    /\ messages[2].sender = "user"
    /\ messages[3].text = "pleaseUpload"
    /\ pendingTimers = <<>>
    /\ pendingQueries = <<>>

(* C6: a clear leaves the transcript as exactly one bot greeting with id 1 and the
   uploaded-document list empty; from then on the list stays empty until an upload
   succeeds, and every send that finds it empty takes the no-document path: a
   delayed prompt and no query request. *)
C6_ClearRevokes ==
    [][/\ lastEvent' = "clear" =>
            /\ messages' = <<Message(1, "bot", "cleared")>>
            /\ uploadedDocs' = <<>>
       /\ (uploadedDocs = <<>> /\ uploadedDocs' # <<>>) => lastEvent' = "uploadResolved"
       /\ (uploadedDocs = <<>> /\ lastEvent' = "send") =>
            /\ pendingQueries' = pendingQueries
            /\ Blank(inputValue) \/ Len(pendingTimers') = Len(pendingTimers) + 1
      ]_vars

\* a question sent after a clear that followed a successful upload
C6_Witness ==
    /\ lastEvent = "send"
    /\ messages[1].text = "cleared"
    /\ Len(messages) = 2
    /\ messages[2].sender = "user"
    /\ uploadedDocs = <<>>
    /\ ~isUploading
    /\ opsStarted = 2
    /\ pendingUploads = <<>>
    /\ pendingQueries = <<>>
    /\ Len(pendingTimers) = 1

-----------------------------------------------------------------------------
(* Claims about the clause list and the risk chart, checked under SpecNorm *)

\* C9: the list of extractions the backend found yields the same normalized
\* clause list (types, texts, importances, attributes, order) whether it is
\* delivered under results[model].extractions, as the flat clauses array or as
\* the nested langextract.clauses array: what the clause list computed from the
\* payload it got equals what it computes from the same list in every shape.
C9_ShapeInvariance ==
    "list" \in normPc =>
        \A shape \in Shapes :
            LET normalized == normalizeClauses(Deliver(extractions, shape, data.text))
            IN  /\ processedData.clauses = normalized.clauses
                /\ processedData.totalClauses = normalized.totalClauses

\* two extractions delivered in the legacy nested shape were both normalized
C9_Witness ==
    /\ "list" \in normPc
    /\ data.hasLangextractClauses
    /\ Len(extractions) = 2
    /\ Len(processedData.clauses) = 2
    /\ processedData.clauses[1].type # processedData.clauses[2].type

\* the keyword sets of the importance rule
HighKeywords == {<<"l", "i", "a", "b", "i", "l", "i", "t", "y">>, <<"t", "e", "r", "m", "i", "n", "a", "t", "i", "o", "n">>, <<"i", "n", "d", "e", "m", "n", "i", "t", "y">>, <<"p", "a", "y", "m", "e", "n", "t">>, <<"d", "i", "s", "p", "u", "t", "e">>}
MediumKeywords == {<<"c", "o", "n", "f", "i", "d", "e", "n", "t", "i", "a", "l", "i", "t", "y">>, <<"w", "a", "r", "r", "a", "n", "t", "y">>, <<"g", "o", "v", "e", "r", "n", "i", "n", "g">>, <<"i", "n", "t", "e", "r", "e", "s", "t">>}

\* the importance the rule gives a lower-cased type
ExpectedImportance(typeLower) ==
    IF \E k \in HighKeywords : includes(typeLower, k) THEN "high"
    ELSE IF \E k \in MediumKeywords : includes(typeLower, k) THEN "medium"
    ELSE "low"

\* the chart's name of an importance
TierOf == [high |-> "High", medium |-> "Medium", low |-> "Low"]

\* the count the chart shows for a slice, 0 when the slice is not drawn
SliceValue(name) ==
    IF \E i \in 1..Len(riskData) : riskData[i].name = name
    THEN (CHOOSE v \in 0..Len(data.clauses) :
            \E i \in 1..Len(riskData) : riskData[i].name = name /\ riskData[i].value = v)
    ELSE 0

\* C10: importance is a function of the clause type alone and the chart and the
\* clause list agree on it: for every extraction both give high when the
\* lower-cased raw type contains liability, termination, indemnity, payment or
\* dispute, else medium when it contains confidentiality, warranty, governing or
\* interest, else low; every listed clause carries the importance of its own
\* type, and the chart's slices count the extractions of each importance.
C10_ImportanceAgrees ==
    /\ \A i \in 1..Len(extractions) :
          LET expected == ExpectedImportance(toLowerCase(RawType(extractions[i])))
          IN  /\ MapClause(extractions[i]).importance = expected
              /\ ChartTier(extractions[i]) = TierOf[expected]
    /\ "list" \in normPc =>
          \A j \in 1..Len(processedData.clauses) :
              processedData.clauses[j].importance =
                  ExpectedImportance(toLowerCase(processedData.clauses[j].type))
    /\ ("chart" \in normPc /\ data.hasClauses) =>
          \A imp \in {"high", "medium", "low"} :
              SliceValue(TierOf[imp] \o " Risk") =
                  Cardinality({i \in 1..Len(extractions) :
                      ExpectedImportance(toLowerCase(RawType(extractions[i]))) = imp})

\* the list and the chart were both computed from a flat payload holding a
\* Termination Clause and a Confidentiality Agreement
C10_Witness ==
    /\ normPc = {"list", "chart"}
    /\ data.hasClauses
    /\ Len(processedData.clauses) = 2
    /\ processedData.clauses[1].type = <<"T", "e", "r", "m", "i", "n", "a", "t", "i", "o", "n", " ", "C", "l", "a", "u", "s", "e">>
    /\ processedData.clauses[1].importance = "high"
    /\ processedData.clauses[2].type = <<"C", "o", "n", "f", "i", "d", "e", "n", "t", "i", "a", "l", "i", "t", "y", " ", "A", "g", "r", "e", "e", "m", "e", "n", "t">>
    /\ processedData.clauses[2].importance = "medium"
    /\ riskData = <<[name |-> "High Risk", value |-> 1], [name |-> "Medium Risk", value |-> 1]>>

\* C11: whatever the payload, no clause whose text is empty, is "null" in any
\* letter case, is the placeholder "No text available" or has fewer than six
\* characters is in the normalized clause list.
C11_NoInvalidText ==
    "list" \in normPc =>
        \A j \in 1..Len(processedData.clauses) :
            /\ processedData.clauses[j].text # <<>>
            /\ toLowerCase(processedData.clauses[j].text) # <<"n", "u", "l", "l">>
            /\ processedData.clauses[j].text #
                  <<"N", "o", " ", "t", "e", "x", "t", " ", "a", "v", "a", "i", "l", "a", "b", "l", "e">>
            /\ Len(processedData.clauses[j].text) >= 6

\* a six-character clause was kept and a five-character one dropped
C11_Witness ==
    /\ "list" \in normPc
    /\ Len(extractions) = 2
    /\ extractions[1].text = TextShort
    /\ extractions[2].text = TextSix
    /\ Len(processedData.clauses) = 1
    /\ processedData.clauses[1].text = TextSix

-----------------------------------------------------------------------------
(* Claims about the result panels, checked under SpecPanels *)

\* C12: for a sentiment payload that is absent, or present with neither
\* statistics nor sentence_results, the sentiment normalization raises no error
\* and returns the overall label neutral, the overall score 0 and an empty
\* per-sentence list.
C12_SentimentDefault ==
    ( /\ "sentiment" \in normPc
      /\ ~finbert.present \/ (~finbert.hasStatistics /\ finbert.sentencesKind = "absent") )
    => /\ "sentiment" \notin thrown
       /\ sentimentProcessed.overallSentiment = <<"n", "e", "u", "t", "r", "a", "l">>
       /\ sentimentProcessed.score = 0
       /\ sentimentProcessed.sentenceAnalysis = <<>>

\* a present payload with neither statistics nor sentences was normalized
C12_Witness ==
    /\ "sentiment" \in normPc
    /\ finbert.present
    /\ ~finbert.hasStatistics
    /\ finbert.sentencesKind = "absent"
    /\ sentimentProcessed.score = 0

-----------------------------------------------------------------------------
(* Further claims about the chat page, checked under SpecChat *)

\* C13: the transcript is append-only: every step other than a clear (upload
\* start, upload success or failure, send, the delayed prompt, query success or
\* failure) leaves the previous transcript as an unmodified prefix of the new
\* one.
C13_AppendOnly ==
    [][lastEvent' # "clear" =>
          /\ Len(messages') >= Len(messages)
          /\ SubSeq(messages', 1, Len(messages)) = messages
      ]_vars

\* a delayed prompt was appended behind two questions sent in a row
C13_Witness ==
    /\ lastEvent = "timeout"
    /\ Len(messages) = 4
    /\ messages[2].sender = "user"
    /\ messages[3].sender = "user"
    /\ messages[4].text = "pleaseUpload"

\* C14: while an upload is in flight a second file selection is ignored, so at
\* most one upload request is in flight in any reachable state.
C14_SingleUploadInFlight == Len(pendingUploads) <= 1

\* C19: a completion (upload, query or delayed prompt) of an operation that
\* was started before a clear adds nothing to the new session: in the state a
\* clear leaves, every pending operation was started before it, and a
\* completion taken from that state changes neither the transcript nor the
\* uploaded-document list.
C19_ClearDiscardsPending ==
    [][( /\ lastEvent = "clear"
         /\ lastEvent' \in {"uploadResolved", "uploadRejected", "timeout",
                            "queryResolved", "queryRejected"} )
       => /\ messages' = messages
          /\ uploadedDocs' = uploadedDocs
      ]_vars

-----------------------------------------------------------------------------
(* Further claims about the result panels, checked under SpecPanels *)

\* C15: the normalizers never throw: for every entity, sentiment or clause
\* payload, malformed ones included, no normalization raises an error.
C15_NormalizersNeverThrow == thrown = {}

\* the document text the clause payload d should yield
ExpectedDocumentText(d) ==
    IF d.present /\ d.text # <<>> THEN d.text
    ELSE IF /\ d.present /\ d.hasResults /\ d.results # <<>>
            /\ d.results[1] # Null
            /\ d.results[1].jsonText # <<>>
         THEN d.results[1].jsonText
         ELSE <<>>

\* C16: the document text returned by the clause normalization is the payload's
\* text whenever that is non-empty, else the json_output.text of the first model
\* result when there is one, else the empty string.
C16_DocumentText ==
    ("list" \in normPc /\ "list" \notin thrown) =>
        processedData.text = ExpectedDocumentText(data)

\* C17: the sentiment distribution always is the three buckets Positive,
\* Negative, Neutral in this order, each holding the count of
\* statistics.sentiment_distribution, and 0 when the payload or the counts are
\* absent.
C17_ThreeBuckets ==
    "sentimentChart" \in normPc =>
        LET counted == finbert.present /\ finbert.hasStatistics
                       /\ finbert.statistics.hasDistribution
            count(key) == IF counted /\ key \in DOMAIN finbert.statistics.sentiment_distribution
                          THEN finbert.statistics.sentiment_distribution[key] ELSE 0
        IN  sentimentData = << [name |-> "Positive", value |-> count("positive")],
                               [name |-> "Negative", value |-> count("negative")],
                               [name |-> "Neutral", value |-> count("neutral")] >>

-----------------------------------------------------------------------------
(* A further claim about the clause list and the risk chart, checked under
   SpecNorm *)

\* C18: for a payload in any of the three shapes the risk chart counts exactly
\* the clauses of the normalized list: for each tier the chart's count is the
\* number of listed clauses of that importance, a tier with count zero having
\* no slice.
C18_ChartCountsList ==
    ("list" \in normPc /\ "chart" \in normPc) =>
        /\ \A imp \in {"high", "medium", "low"} :
              SliceValue(TierOf[imp] \o " Risk") =
                  Cardinality({j \in 1..Len(processedData.clauses) :
                                  processedData.clauses[j].importance = imp})
        /\ \A i \in 1..Len(riskData) : riskData[i].value > 0

-----------------------------------------------------------------------------
(* A further claim about the clause viewer, checked under SpecViewer *)

\* C20: in every reachable viewer state, after any card or highlight clicks,
\* Prev/Next clicks, play/pause, timer ticks, search and filter changes,
\* activeClauseIndex is -1 or an index from 0 up to, not including, the number
\* of clauses given to the viewer.
C20_IndexInRange ==
    \/ activeClauseIndex = -1
    \/ 0 <= activeClauseIndex /\ activeClauseIndex < Len(clauses)

\* auto-play has walked to the last of three clauses
C20_Witness ==
    /\ lastEvent = "tick"
    /\ Len(clauses) = 3
    /\ activeClauseIndex = 2

-----------------------------------------------------------------------------
(* Claims about sending and uploading, checked under SpecChat *)

\* the step appended exactly one message, from the given sender
AppendedOne(sender) ==
    /\ Len(messages') = Len(messages) + 1
    /\ SubSeq(messages', 1, Len(messages)) = messages
    /\ messages'[Len(messages')].sender = sender

\* C21: a send of non-blank text while a document is uploaded appends the user
\* message in the same step that issues the query request, issues exactly one
\* request (nothing but a send ever issues one: no retry), and when a request
\* settles exactly one bot message is appended for it - the answer or the
\* generic error text when it resolves, the failure message when it rejects -
\* and the querying flag is false.
C21_SendWithDocument ==
    [][/\ (lastEvent' = "send" /\ ~Blank(inputValue) /\ uploadedDocs # <<>>) =>
            /\ AppendedOne("user")
            /\ messages'[Len(messages')].text = inputValue
            /\ Len(pendingQueries') = Len(pendingQueries) + 1
            /\ SubSeq(pendingQueries', 1, Len(pendingQueries)) = pendingQueries
            /\ pendingQueries'[Len(pendingQueries')].question = inputValue
            /\ isLoading'
            /\ pendingTimers' = pendingTimers
       /\ Len(pendingQueries') > Len(pendingQueries) => lastEvent' = "send"
       /\ lastEvent' = "queryResolved" =>
            /\ AppendedOne("bot")
            /\ messages'[Len(messages')].text \in {"answer", "processingError"}
            /\ Len(pendingQueries') = Len(pendingQueries) - 1
            /\ ~isLoading'
       /\ lastEvent' = "queryRejected" =>
            /\ AppendedOne("bot")
            /\ messages'[Len(messages')].text = "queryFailed"
            /\ Len(pendingQueries') = Len(pendingQueries) - 1
            /\ ~isLoading'
      ]_vars

\* a question about an uploaded document was sent and its request rejected
C21_Witness ==
    /\ lastEvent = "queryRejected"
    /\ Len(messages) = 5
    /\ messages[4].sender = "user"
    /\ messages[5].text = "queryFailed"
    /\ uploadedDocs # <<>>
    /\ pendingQueries = <<>>
    /\ ~isLoading

\* C22: a file selection with no file changes nothing; with a file it appends
\* the provisional bot message, sets the uploading flag and starts one request;
\* a request that succeeds appends exactly one uploaded document and one success
\* message; one that fails appends one error message and leaves the document
\* list alone; after either the uploading flag is false.
C22_UploadOutcomes ==
    [][/\ lastEvent' = "selectFile" =>
            \/ UNCHANGED <<messages, isUploading, pendingUploads, uploadedDocs>>
            \/ /\ AppendedOne("bot")
               /\ messages'[Len(messages')].text = "uploading"
               /\ isUploading'
               /\ Len(pendingUploads') = Len(pendingUploads) + 1
               /\ uploadedDocs' = uploadedDocs
       /\ lastEvent' = "uploadResolved" =>
            /\ Len(uploadedDocs') = Len(uploadedDocs) + 1
            /\ SubSeq(uploadedDocs', 1, Len(uploadedDocs)) = uploadedDocs
            /\ AppendedOne("bot")
            /\ messages'[Len(messages')].text = "uploaded"
            /\ Len(pendingUploads') = Len(pendingUploads) - 1
            /\ ~isUploading'
       /\ lastEvent' = "uploadRejected" =>
            /\ uploadedDocs' = uploadedDocs
            /\ AppendedOne("bot")
            /\ messages'[Len(messages')].text = "uploadFailed"
            /\ Len(pendingUploads') = Len(pendingUploads) - 1
            /\ ~isUploading'
      ]_vars

\* an upload was started and failed
C22_Witness ==
    /\ lastEvent = "uploadRejected"
    /\ Len(messages) = 3
    /\ messages[2].text = "uploading"
    /\ messages[3].text = "uploadFailed"
    /\ uploadedDocs = <<>>
    /\ pendingUploads = <<>>
    /\ ~isUploading

-----------------------------------------------------------------------------
(* Further claims about the clause viewer, checked under SpecViewer *)

\* the least offset at which sub occurs in txt
FirstOccurrence(txt, sub) ==
    CHOOSE i \in 0..Len(txt) :
        /\ OccursAt(txt, sub, i)
        /\ \A j \in 0..(i - 1) : ~OccursAt(txt, sub, j)

\* the positions in the given list of the clauses the viewer is to show
ShownPositions ==
    {i \in 1..Len(clauses) :
        /\ \E k \in 0..Len(text) : OccursAt(text, clauses[i].text, k)
        /\ \/ searchTerm = <<>>
           \/ \E k \in 0..Len(clauses[i].text) :
                 OccursAt(toLowerCase(clauses[i].text), toLowerCase(searchTerm), k)
           \/ \E k \in 0..Len(clauses[i].type) :
                 OccursAt(toLowerCase(clauses[i].type), toLowerCase(searchTerm), k)
        /\ filterType = <<"a", "l", "l">> \/ clauses[i].type = filterType}

\* clause j is shown before clause i: it occurs earlier, or at the same place and
\* comes earlier in the given list
ShownBefore(j, i) ==
    \/ FirstOccurrence(text, clauses[j].text) < FirstOccurrence(text, clauses[i].text)
    \/ /\ FirstOccurrence(text, clauses[j].text) = FirstOccurrence(text, clauses[i].text)
       /\ j < i

\* C23: the viewer's list is exactly the clauses whose text occurs in the
\* document, that contain the search term in text or type without regard to
\* case (all for an empty term) and whose type is the filter (all for "all"),
\* ordered by first occurrence with ties in the given order.
C23_FilteredSorted ==
    /\ Len(Shown) = Cardinality(ShownPositions)
    /\ \A i \in ShownPositions :
          Shown[Cardinality({j \in ShownPositions : ShownBefore(j, i)}) + 1] = clauses[i]

\* a search kept three clauses, two of which start at the same place, and the
\* list is not in the given order
C23_Witness ==
    /\ lastEvent = "search"
    /\ searchTerm = <<"b">>
    /\ text = <<"a", "B", "a">>
    /\ Len(clauses) = 3
    /\ clauses[1].text = <<"B", "a">>
    /\ clauses[2].text = <<"a", "B">>
    /\ clauses[3].text = <<"B">>
    /\ Len(Shown) = 3
    /\ Shown[1].text = <<"a", "B">>
    /\ Shown[2].text = <<"B", "a">>
    /\ Shown[3].text = <<"B">>

\* C24: pause, a search change and a filter change leave activeClauseIndex as it
\* is, also when the new filtered list is shorter than the index; of the
\* viewer's state pause changes only isPlaying, a search change only searchTerm
\* and a filter change only filterType.
C24_FrameOfPauseSearchFilter ==
    [][/\ lastEvent' = "pause" =>
            /\ isPlaying /\ ~isPlaying'
            /\ UNCHANGED <<activeClauseIndex, searchTerm, filterType, text, clauses>>
       /\ lastEvent' = "search" =>
            /\ searchTerm' # searchTerm
            /\ UNCHANGED <<activeClauseIndex, isPlaying, filterType, text, clauses>>
       /\ lastEvent' = "filter" =>
            /\ filterType' # filterType
            /\ UNCHANGED <<activeClauseIndex, isPlaying, searchTerm, text, clauses>>
      ]_vars

\* a filter change left the index beyond the end of the shortened list
C24_Witness ==
    /\ lastEvent = "filter"
    /\ activeClauseIndex = 2
    /\ Len(Shown) = 1

-----------------------------------------------------------------------------
(* A further claim about the result panels, checked under SpecPanels *)

\* the three sentiment labels
SentimentLabels ==
    { <<"p", "o", "s", "i", "t", "i", "v", "e">>,
      <<"n", "e", "g", "a", "t", "i", "v", "e">>,
      <<"n", "e", "u", "t", "r", "a", "l">> }

\* C25: for every sentiment payload the normalized overall label and every
\* per-sentence label is one of positive, negative, neutral.
C25_LabelsInEnum ==
    ("sentiment" \in normPc /\ "sentiment" \notin thrown) =>
        /\ sentimentProcessed.overallSentiment \in SentimentLabels
        /\ \A i \in 1..Len(sentimentProcessed.sentenceAnalysis) :
              sentimentProcessed.sentenceAnalysis[i].sentiment \in SentimentLabels


\* C27: after an enabled navigation step (Prev, Next, a click on a card or on
\* a highlight) activeClauseIndex designates an element of the filtered list,
\* 0 <= activeClauseIndex < Len(Shown), also after a search or filter change
\* has shortened the list below the previous index.
C27_NavigationInRange == [][lastEvent' \in {"prev", "next", "card", "highlight"} => (0 <= activeClauseIndex' /\ activeClauseIndex' < Len(Shown))]_vars

-----------------------------------------------------------------------------
(* A claim about auto-play left alone, checked under SpecAutoPlay *)

\* C26: auto-play always terminates: once play has been pressed, with the timer
\* ticking and no further user input, a state with isPlaying false is reached,
\* for every filtered list, the empty one included.
C26_AutoPlayTerminates == isPlaying ~> ~isPlaying

-----------------------------------------------------------------------------
(* A claim about the entity chart and the NER tab, checked under SpecPanels *)

\* every entity of the payload names its category, in label or in type
CategorisedEntities(d) == \A i \in 1..Len(d.entities) : d.entities[i] # Null /\ (d.entities[i].label # "" \/ d.entities[i].type # "")

RECURSIVE SumValues(_)
SumValues(items) == IF items = <<>> THEN 0 ELSE Head(items).value + SumValues(Tail(items))

\* C28: the entity distribution chart and the NER tab's groups agree: for a
\* payload whose entities carry their category in label or in type, with at most
\* 10 categories, the chart has one entry per group, with the group's key and
\* count, and the counts sum to the number of entities.
C28_ChartAgreesWithGroups == ({"ner", "entityChart"} \subseteq normPc /\ ner.present /\ ner.entitiesKind = "list" /\ CategorisedEntities(ner) /\ Len(nerProcessed.entities) <= MaxChartEntries) => (Len(entityData) = Len(nerProcessed.entities) /\ (\A g \in 1..Len(nerProcessed.entities) : \E k \in 1..Len(entityData) : entityData[k].name = nerProcessed.entities[g].type /\ entityData[k].value = nerProcessed.entities[g].count) /\ SumValues(entityData) = Len(ner.entities))

-----------------------------------------------------------------------------
(* A claim about the loading of the results page, checked under SpecResults *)

\* a bundle is available from the navigation state or from the global prop
BundleAvailable == (location.hasState /\ location.analysisResults # Null) \/ globalResults # Null

\* C30: whenever a bundle is available, from the navigation state or from the
\* global results prop alone, the page loads it without error and shows the
\* analysis; only the absence of a bundle from both sources leads to the waiting
\* state, and never to an error.
C30_BundleLoadsWithoutError == resultsPc # "error" /\ (resultsPc = "rendered" => (resultsView = "analysis" <=> BundleAvailable))

====
